---- MODULE Spec2Model ----
(***************************************************************************)
(* Model of the snaketongs bridge: the stdio transport of subproc.c, the   *)
(* process_base / process_t lifecycle, the table of host objects shared    *)
(* with the interpreter (py_to_cpp_ptrs and its free list), the object     *)
(* proxy, and the reentrant wait_for_ret / handle_call dispatcher.         *)
(*                                                                         *)
(* The interpreter side (entry.py) is the environment: it is modelled from *)
(* the wire protocol only.                                                 *)
(*                                                                         *)
(* Spec is the bridge at work: commands, host callables, exceptions, the   *)
(* child's death, terminate() and the destructor.  SpecProxy is the user   *)
(* code handling object proxies, SpecCross one operation coercing its      *)
(* arguments.                                                              *)
(***************************************************************************)
EXTENDS Integers, Sequences, FiniteSets, TLC

VARIABLES
    impl,                       \* process_base::impl: "impl" or "nullptr"
    err,                        \* snaketongs_impl::err, the sticky error flag
    cpp_to_py,                  \* frames held in the FILE buffer of cpp_to_py
    wire,                       \* frames written to the pipe, unread by the child
    py_to_cpp,                  \* frames written by the child, unread by the host
    child,                      \* "running", "exited0", "exited1"
    py_to_cpp_ptrs,             \* the vector of free_list_entry / function / exception_ptr
    py_to_cpp_ptrs_free_list,   \* head of the free list (next_free)
    phase,                      \* "alive" or "destroyed" (the process_t object), or "failed"
                                \* when its constructor has thrown
    stack,                      \* the host call stack above the main program
    pending,                    \* the value or exception on its way to the top frame
    ncmd,                       \* commands issued so far (each gets the next id)
    nops,                       \* operations the user code has started
    issued,                     \* the HostIndexes cmd_make_remote has handed out
    reg,                        \* the latest of them, and what its cell was before
    proxies,                    \* the object proxies of the user code, by variable
    made,                       \* RemoteIndexes wrapped in a proxy so far
    xop,                        \* an operation of this bridge given another bridge's proxy
    excs,                       \* the exception proxies of the user code, by variable
    inv,                        \* the handle_call of one inbound `c` frame, argument by argument
    it,                         \* a python_iterator of the user code and the loop that runs over it
    boot,                       \* snaketongs_impl_start and snaketongs_impl_quit, step by step
    num,                        \* an integer on its way through pack_int, send_cmd and unpack_int
    fl,                         \* a floating point value on its way to the interpreter and back
    sz,                         \* a frame that carries a size, as handle_call or cmd_get_bytes reads it
    snd,                        \* the commands under way, send by send, and the proxies destroyed so far
    rstack,                     \* the interpreter's stack of commands and host calls
    robj,                       \* the interpreter's handle table (RemoteIndex -> object)
    rheld,                      \* HostIndexes the interpreter holds a wrapper for
    rfns,                       \* those of them it can call (made a function by L)
    hobjs,                      \* RemoteIndexes of the proxies the user code keeps
    calls,                      \* the transport calls of the latest step and their results
    last,                       \* the latest step of the host and how it ended
    term,                       \* how the call of terminate() ended, "none" before it
    match,                      \* the latest reply read: by which command, sent for which
    rethrown,                   \* the latest exception unwrapped by rethrow_exc
    garbled,                    \* the interpreter has sent a frame outside the protocol
    qpc,                        \* where terminate() or ~process_t is inside quit()
    closed,                     \* fclose has been called on both streams
    quits,                      \* the calls of snaketongs_impl_quit so far
    reaped                      \* waitid has returned for the child

vars == <<impl, err, cpp_to_py, wire, py_to_cpp, child, py_to_cpp_ptrs,
          py_to_cpp_ptrs_free_list, phase, stack, pending, ncmd, rstack, robj, rheld, rfns,
          hobjs, calls, last, term, match, rethrown, garbled, nops, issued, reg, proxies, made,
          xop, excs, inv, it, boot, num, fl, sz, snd, qpc, closed, quits, reaped>>

(***************************************************************************)
(* Bounds of the model.                                                    *)
(***************************************************************************)
\* operations the user code starts in one run: commands, make_function, throws
MaxOps == 3
\* host callables nested inside one another
MaxDepth == 2
\* calls into the host the interpreter makes while it runs one command
MaxCalls == 2
\* elements a remote iterator produces
MaxLen == 5

\* cells of py_to_cpp_ptrs when the table is taken by itself
MaxCells == 3

\* sizeof(std::size_t) in the model: a word of two bytes
int_size == 2

\* the double of the model: its exponent field has ExpBits bits and its
\* fraction HexDigits hexadecimal digits (11 and 13 in IEEE 754 binary64)
ExpBits == 3

HexDigits == 1

(***************************************************************************)
(* Wire frames: one opcode and one packed integer, with the payload that   *)
(* the opcode asks for.  id is not on the wire: it names the command a     *)
(* frame belongs to (the command itself, or the reply sent for it).        *)
(***************************************************************************)
\* the magic argument of the final `r` frame, 0xD1EA112EAD1, by its low 31 bits
Sentinel == 554887889

Frame(op, arg, pl, id) == [op |-> op, arg |-> arg, pl |-> pl, id |-> id]

NoFrame == Frame("-", 0, <<>>, 0)

\* ~0 as std::size_t, the end of the free list, and the "no index" answer
NoNext == -1

\* RemoteIndex of a builtin looked up by the constructor (None, list, ...)
Builtin == 0

\* RemoteIndex of py_wrapped_cpp_exc, the type made by the constructor
CppExcType == 1

\* exceptions of the user's own types thrown by host callables
NativeExcs == {"E1", "E2"}

Top(s) == s[Len(s)]

Pop(s) == SubSeq(s, 1, Len(s) - 1)

Pop2(s) == SubSeq(s, 1, Len(s) - 2)

(***************************************************************************)
(* subproc.c: the transport.  Each operator returns the call's result      *)
(* together with the new value of what it touches; io is 1 when the stdio  *)
(* function was called at all.                                             *)
(***************************************************************************)

\* fwrite / fflush / fread can report an error only when the child is gone
ChildGone(c) == c # "running"

\* the outcomes of an fwrite that has to go through to the pipe
SendFaults(c) == IF ChildGone(c) THEN {FALSE, TRUE} ELSE {FALSE}

\* a send that does not look at the error flag first
snaketongs_impl_send_unlatched(e, buf, data, fault) ==
    IF Len(data) = 0
      THEN [ok |-> TRUE, err |-> e, buf |-> buf, io |-> 0]
      ELSE IF fault
      THEN [ok |-> FALSE, err |-> TRUE, buf |-> buf, io |-> 1]
      ELSE [ok |-> TRUE, err |-> e, buf |-> buf \o data, io |-> 1]

snaketongs_impl_send(e, buf, data, fault) ==
    IF e
      THEN [ok |-> FALSE, err |-> e, buf |-> buf, io |-> 0]
      ELSE IF Len(data) = 0
      THEN [ok |-> TRUE, err |-> e, buf |-> buf, io |-> 0]
      ELSE IF fault
      THEN [ok |-> FALSE, err |-> TRUE, buf |-> buf, io |-> 1]
      ELSE [ok |-> TRUE, err |-> e, buf |-> buf \o data, io |-> 1]

snaketongs_impl_flush(e, buf, w, c) ==
    IF e
      THEN [ok |-> FALSE, err |-> e, buf |-> buf, wire |-> w, io |-> 0]
      ELSE IF Len(buf) > 0 /\ ChildGone(c)
      THEN [ok |-> FALSE, err |-> TRUE, buf |-> buf, wire |-> w, io |-> 1]
      ELSE [ok |-> TRUE, err |-> e, buf |-> <<>>, wire |-> w \o buf, io |-> 1]

\* fread can return: a frame is there, or the stream has ended
CanRecv(e, inq, c) == e \/ Len(inq) > 0 \/ ChildGone(c)

snaketongs_impl_recv(e, inq) ==
    IF e
      THEN [ok |-> FALSE, err |-> e, inq |-> inq, data |-> NoFrame, io |-> 0]
      ELSE IF Len(inq) = 0
      THEN [ok |-> FALSE, err |-> TRUE, inq |-> inq, data |-> NoFrame, io |-> 1]
      ELSE [ok |-> TRUE, err |-> e, inq |-> Tail(inq), data |-> Head(inq), io |-> 1]

\* a wait_for_python that is content with any normal exit
wait_for_python_exited(c) == c \in {"exited0", "exited1"}

\* wait_for_python: true only for a normal exit with status 0 (c is what
\* waitid has reported: how the child ended, or "error")
wait_for_python(c) == c = "exited0"

\* an fclose that closes the stream without writing the buffer out
fclose_discard(buf, w, c) == [ok |-> TRUE, wire |-> w]

\* fclose(cpp_to_py) writes what is buffered to the pipe and closes it
fclose(buf, w, c) ==
    LET flushed == ~(Len(buf) > 0 /\ ChildGone(c))
    IN  [ok |-> flushed, wire |-> IF flushed THEN w \o buf ELSE w]

\* snaketongs_impl_quit: ok after the two fclose calls (closed_ok) and waitid
\* on the child, which has ended in state c
snaketongs_impl_quit(closed_ok, c) == closed_ok /\ wait_for_python(c)

(***************************************************************************)
(* The transport as the bridge sees it while it runs one step: the error   *)
(* flag, the output buffer and the log of the transport calls made in this *)
(* step (io is 1 when the call reached stdio, unsent the number of frames  *)
(* in the output buffer when the call was made).                           *)
(***************************************************************************)
T0 == [err |-> err, buf |-> cpp_to_py, log |-> <<>>, ok |-> TRUE]

Call(fn, ok, io, unsent) == [fn |-> fn, ok |-> ok, io |-> io, unsent |-> unsent]

\* process_base::send: throws io_error (ok = FALSE) when the transport refuses
send(t, fr, fault) ==
    LET s == snaketongs_impl_send(t.err, t.buf, <<fr>>, fault)
    IN  [err |-> s.err, buf |-> s.buf,
         log |-> Append(t.log, Call("send", s.ok, s.io, Len(t.buf))), ok |-> s.ok]

\* process_t::recv_int on a frame that has arrived whole: one more recv
recv_int(t) == [t EXCEPT !.log = Append(@, Call("recv", TRUE, 1, Len(t.buf)))]

\* handle_call reads num_args and then each argument
RECURSIVE recv_args(_, _)
recv_args(t, num_args) ==
    IF num_args = 0 THEN recv_int(t) ELSE recv_int(recv_args(t, num_args - 1))

\* process_t::send_cmd
send_cmd(t, op, arg, pl, id, fault) == send(t, Frame(op, arg, pl, id), fault)

(***************************************************************************)
(* process_t: py_to_cpp_ptrs and its free list.  A cell is a free list     *)
(* entry, a function or an exception_ptr.  The vector is indexed from 0,   *)
(* the sequence from 1.                                                    *)
(***************************************************************************)
Slot(tag, next, val) == [tag |-> tag, next |-> next, val |-> val]

\* free_list_entry::any
any(head) == head # NoNext

\* a cmd_make_remote that reads size() after push_back
RegisterSizeAfter(ptrs, head, cell) ==
    IF any(head)
      THEN IF ptrs[head + 1].tag = "free"
           THEN [ok |-> TRUE, idx |-> head,
                 ptrs |-> [ptrs EXCEPT ![head + 1] = cell],
                 head |-> ptrs[head + 1].next]
           ELSE [ok |-> FALSE, idx |-> head, ptrs |-> ptrs, head |-> head]
      ELSE [ok |-> TRUE, idx |-> Len(ptrs) + 1, ptrs |-> Append(ptrs, cell), head |-> head]

\* a cmd_make_remote that always stores into cell 0 of a table that has one
RegisterFirst(ptrs, head, cell) ==
    IF Len(ptrs) > 0
      THEN [ok |-> TRUE, idx |-> 0, ptrs |-> [ptrs EXCEPT ![1] = cell], head |-> head]
      ELSE [ok |-> TRUE, idx |-> 0, ptrs |-> Append(ptrs, cell), head |-> head]

\* the first half of cmd_make_remote: pop from the free list, or push_back;
\* std::get<free_list_entry> throws when the head names a cell that is not free
Register(ptrs, head, cell) ==
    IF any(head)
      THEN IF ptrs[head + 1].tag = "free"
           THEN [ok |-> TRUE, idx |-> head,
                 ptrs |-> [ptrs EXCEPT ![head + 1] = cell],
                 head |-> ptrs[head + 1].next]
           ELSE [ok |-> FALSE, idx |-> head, ptrs |-> ptrs, head |-> head]
      ELSE [ok |-> TRUE, idx |-> Len(ptrs), ptrs |-> Append(ptrs, cell), head |-> head]

\* the capacity of py_to_cpp_ptrs after it has grown to n cells by push_back:
\* the vector takes new storage when it is full, of twice the size
RECURSIVE capacity(_)
capacity(n) ==
    IF n = 0 THEN 0
    ELSE LET c == capacity(n - 1)
         IN  IF n - 1 < c THEN c ELSE IF c = 0 THEN 1 ELSE 2 * c

\* push_back on a table of n cells moves every cell to new storage, and the
\* references into the old storage dangle
Reallocates(n) == n = capacity(n)

\* a handle_del that moves the head before it stores it in the cell
handle_del_swapped(ptrs, head, ptr_idx) ==
    [ptrs |-> [ptrs EXCEPT ![ptr_idx + 1] = Slot("free", ptr_idx, "")],
     head |-> ptr_idx]

\* handle_del: push the cell onto the free list
handle_del(ptrs, head, ptr_idx) ==
    [ptrs |-> [ptrs EXCEPT ![ptr_idx + 1] = Slot("free", head, "")],
     head |-> ptr_idx]

\* py_to_cpp_ptrs[ptr_idx] is a checked read only inside the vector
InTable(ptrs, ptr_idx) == ptr_idx >= 0 /\ ptr_idx < Len(ptrs)

\* what an index outside the vector reads: anything
Wild == Slot("wild", NoNext, "")

CellAt(ptrs, ptr_idx) == IF InTable(ptrs, ptr_idx) THEN ptrs[ptr_idx + 1] ELSE Wild

\* a drop that does not test proc
drop_unchecked(t, nonnull, i, raw, fault) ==
    IF i = "impl" THEN send_cmd(t, "~", raw, <<>>, 0, fault) ELSE t

\* a drop that does not ask the bridge whether it is terminated
drop_unterminated(t, nonnull, i, raw, fault) ==
    IF nonnull THEN send_cmd(t, "~", raw, <<>>, 0, fault) ELSE t

\* object::drop: cmd_del_ptr unless the proxy is null or the bridge terminated
drop(t, nonnull, i, raw, fault) ==
    IF nonnull /\ i = "impl" THEN send_cmd(t, "~", raw, <<>>, 0, fault) ELSE t

\* ~object: drop, with an io_error swallowed
dtor(t, nonnull, i, raw) ==
    [drop(t, nonnull, i, raw, FALSE) EXCEPT !.ok = t.ok]

(***************************************************************************)
(* The host's stack.  The main program is below the first frame.  A frame  *)
(* is one of                                                               *)
(*   wait    - wait_for_ret for command id, about to flush or to recv      *)
(*   call    - handle_call of callable id: the callable runs, or the catch *)
(*             clause is at cmd_make_remote ("catch1") or at the call of   *)
(*             py_wrapped_cpp_exc ("catch2"); a is the proxy the callable  *)
(*             holds, b the wrapper made by cmd_make_remote, x the         *)
(*             exception caught                                            *)
(*   rethrow - rethrow_exc for command id; a is exc_obj                    *)
(*   mkfn    - make_function: cmd_make_remote ("R"), then cmd_lambda ("L") *)
(*   getbytes - cmd_get_bytes, between wait_for_ret and the recv of the    *)
(*             bytes                                                       *)
(* A call frame whose callable was given a number of arguments it does not *)
(* take is at "fallback" (fallback_call is about to release the arguments  *)
(* and make the TypeError) and then at "fallback2" (it awaits the          *)
(* TypeError to send it with cmd_exc).                                     *)
(***************************************************************************)
HFrame(k, pc, id, a, b, x) == [k |-> k, pc |-> pc, id |-> id, a |-> a, b |-> b, x |-> x]

\* a wait_for_ret that starts at its recv
WaitUnflushed(id) == HFrame("wait", "recv", id, 0, 0, "")

Wait(id) == HFrame("wait", "flush", id, 0, 0, "")

\* the number of arguments the callables of the model take (MaxArity of
\* make_function, with no smaller arity possible)
Arity == 0

None == [t |-> "none", v |-> 0, x |-> ""]

Ret(v) == [t |-> "ret", v |-> v, x |-> ""]

\* the result of make_function: the caller keeps it in a variable
RetKeep(v) == [t |-> "ret", v |-> v, x |-> "keep"]

\* exception x in flight; v is the RemoteIndex of a thrown proxy, else 0
Exc(x, v) == [t |-> "exc", v |-> v, x |-> x]

IoError == Exc("io_error", 0)

Step(op, res) == [op |-> op, res |-> res]

\* quit() is not running; else who is its caller, pc the statement it is at
\* and ok what snaketongs_impl_quit has found so far
NoQuit == [who |-> "", pc |-> "", ok |-> TRUE]

Quitting(who, pc, ok) == [who |-> who, pc |-> pc, ok |-> ok]

\* user code runs: the main program, or a callable inside handle_call
\* user code runs in the main program or in a callable, never while the one
\* host thread is inside wait_for_ret
AtUser ==
    /\ phase = "alive"
    /\ impl = "impl"
    /\ qpc = NoQuit
    /\ pending.t = "none"
    /\ IF stack = <<>> THEN TRUE ELSE Top(stack).k = "call" /\ Top(stack).pc = "run"

tblvars == <<py_to_cpp_ptrs, py_to_cpp_ptrs_free_list, issued, reg>>

\* the variables of the proxy and the coercion steps, which the bridge's own
\* steps leave alone
othervars == <<proxies, made, xop, excs, inv, it, boot, num, fl, sz, snd>>

remvars == <<rstack, robj, rheld, rfns, garbled, child>>

lifevars == <<impl, phase, term, qpc, closed, quits, reaped>>

ghostvars == <<match, rethrown>>

\* what every step of the host sets
Host(t, stk, pend, lst) ==
    /\ err' = t.err
    /\ cpp_to_py' = t.buf
    /\ calls' = t.log
    /\ stack' = stk
    /\ pending' = pend
    /\ last' = lst
    /\ UNCHANGED othervars

\* cmd_make_remote has taken a cell: the table after it, and the index it hands
\* out when std::get did not throw
Registers(r) ==
    /\ py_to_cpp_ptrs' = r.ptrs
    /\ py_to_cpp_ptrs_free_list' = r.head
    /\ issued' = IF r.ok THEN issued \cup {r.idx} ELSE issued
    /\ reg' = IF r.ok THEN [idx |-> r.idx, was |-> CellAt(py_to_cpp_ptrs, r.idx).tag] ELSE reg

\* the host process has been killed by a signal: nothing runs above this frame
Crashed == HFrame("crashed", "", 0, 0, 0, "")

\* what std::get does with a cell read outside the vector: it throws, or it
\* hands out bytes that are no functor and no exception_ptr
Undefined == {"bad_variant_access", "wild", "crash"}

\* the outcome u of such a read, for the frames stk below the reader
Outcome(t, stk, u, op) ==
    IF u = "crash"
      THEN Host(t, Append(stk, Crashed), None, Step(op, "crash"))
      ELSE Host(t, stk, Exc(u, 0), Step(op, u))

(***************************************************************************)
(* User code.                                                              *)
(***************************************************************************)

\* a command that returns an object: cmd_call and its like send the frame and
\* enter wait_for_object
UserCommand ==
    /\ AtUser
    /\ nops < MaxOps
    /\ nops' = nops + 1
    /\ \E fault \in SendFaults(child) :
         LET t == send_cmd(T0, "C", 0, <<Builtin>>, ncmd + 1, fault)
         IN  IF t.ok
               THEN Host(t, Append(stack, Wait(ncmd + 1)), None, Step("command", "sent"))
               ELSE Host(t, stack, IoError, Step("command", "io_error"))
    /\ ncmd' = ncmd + 1
    /\ UNCHANGED <<wire, py_to_cpp, tblvars, remvars, lifevars, ghostvars, hobjs>>

\* cmd_get_bytes: send_cmd, then wait_for_ret for the size
UserGetBytes ==
    /\ AtUser
    /\ nops < MaxOps
    /\ nops' = nops + 1
    /\ \E fault \in SendFaults(child) :
         LET t == send_cmd(T0, "b", Builtin, <<>>, ncmd + 1, fault)
         IN  IF t.ok
               THEN Host(t, stack \o <<HFrame("getbytes", "", ncmd + 1, 0, 0, ""), Wait(ncmd + 1)>>,
                         None, Step("get_bytes", "sent"))
               ELSE Host(t, stack, IoError, Step("get_bytes", "io_error"))
    /\ ncmd' = ncmd + 1
    /\ UNCHANGED <<wire, py_to_cpp, tblvars, remvars, lifevars, ghostvars, hobjs>>

\* cmd_get_bytes goes on with the size: the container is made and recv reads
\* the bytes (a recv of no bytes succeeds without I/O unless the flag is set)
GetBytesStep ==
    /\ stack # <<>> /\ Top(stack).k = "getbytes"
    /\ pending.t # "none"
    /\ (pending.t = "ret" /\ pending.v > 0) => CanRecv(err, py_to_cpp, child)
    /\ LET r == IF pending.v = 0
                  THEN [ok |-> ~err, err |-> err, inq |-> py_to_cpp, data |-> NoFrame, io |-> 0]
                  ELSE snaketongs_impl_recv(err, py_to_cpp)
           t == [err |-> r.err, buf |-> cpp_to_py, ok |-> r.ok,
                 log |-> <<Call("recv", r.ok, r.io, Len(cpp_to_py))>>]
       IN  CASE pending.t = "exc" ->
                  /\ Host(T0, Pop(stack), pending, Step("get_bytes", pending.x))
                  /\ UNCHANGED py_to_cpp
            []  pending.t = "ret" /\ r.ok ->
                  /\ Host(t, Pop(stack), Ret(0), Step("get_bytes", "ok"))
                  /\ py_to_cpp' = r.inq
            []  pending.t = "ret" /\ ~r.ok ->
                  /\ Host(t, Pop(stack), IoError, Step("get_bytes", "io_error"))
                  /\ py_to_cpp' = r.inq
    /\ UNCHANGED <<nops, wire, tblvars, remvars, lifevars, ghostvars, hobjs, ncmd>>

\* a proxy destroyed at any time, also while the host thread waits for a reply
UserDropAnytime ==
    /\ phase = "alive" /\ impl = "impl" /\ qpc = NoQuit
    /\ pending.t = "none"
    /\ \E raw \in hobjs :
         /\ Host(dtor(T0, TRUE, impl, raw), stack, None, Step("dtor", "ok"))
         /\ hobjs' = hobjs \ {raw}
    /\ UNCHANGED <<nops, wire, py_to_cpp, tblvars, remvars, lifevars, ghostvars, ncmd>>

\* a proxy the user keeps goes out of scope: ~object
UserDrop ==
    /\ AtUser
    /\ \E raw \in hobjs :
         /\ Host(dtor(T0, TRUE, impl, raw), stack, None, Step("dtor", "ok"))
         /\ hobjs' = hobjs \ {raw}
    /\ UNCHANGED <<nops, wire, py_to_cpp, tblvars, remvars, lifevars, ghostvars, ncmd>>

\* make_function: cmd_make_remote registers the functor and sends R
UserMakeFunction ==
    /\ AtUser
    /\ nops < MaxOps
    /\ nops' = nops + 1
    /\ LET r == Register(py_to_cpp_ptrs, py_to_cpp_ptrs_free_list, Slot("fn", NoNext, ""))
           t == send_cmd(T0, "R", r.idx, <<>>, ncmd + 1, FALSE)
       IN  /\ Registers(r)
           /\ IF ~r.ok
                THEN Host(T0, stack, Exc("bad_variant_access", 0),
                          Step("make_function", "bad_variant_access"))
                ELSE IF t.ok
                THEN Host(t, stack \o <<HFrame("mkfn", "R", r.idx, 0, 0, ""), Wait(ncmd + 1)>>,
                          None, Step("make_function", "sent"))
                ELSE Host(t, stack, IoError, Step("make_function", "io_error"))
    /\ ncmd' = ncmd + 1
    /\ UNCHANGED <<wire, py_to_cpp, remvars, lifevars, ghostvars, hobjs>>

\* make_function goes on: cmd_lambda on the wrapper, then the wrapper's proxy
\* is destroyed and the function's proxy returned
MakeFunctionStep ==
    /\ stack # <<>> /\ Top(stack).k = "mkfn"
    /\ pending.t # "none"
    /\ LET f == Top(stack)
           tl == send_cmd(T0, "L", pending.v, <<>>, ncmd + 1, FALSE)
       IN  CASE f.pc = "R" /\ pending.t = "ret" /\ tl.ok ->
                  /\ Host(tl, Pop(stack) \o <<[f EXCEPT !.pc = "L", !.b = pending.v], Wait(ncmd + 1)>>,
                          None, Step("make_function", "sent"))
                  /\ ncmd' = ncmd + 1
            []  f.pc = "R" /\ pending.t = "ret" /\ ~tl.ok ->
                  /\ Host(dtor(tl, TRUE, impl, pending.v), Pop(stack), IoError,
                          Step("make_function", "io_error"))
                  /\ ncmd' = ncmd + 1
            []  f.pc = "R" /\ pending.t = "exc" ->
                  /\ Host(T0, Pop(stack), pending, Step("make_function", pending.x))
                  /\ ncmd' = ncmd
            []  f.pc = "L" /\ pending.t = "ret" ->
                  /\ Host(dtor(T0, TRUE, impl, f.b), Pop(stack), RetKeep(pending.v),
                          Step("make_function", "ok"))
                  /\ ncmd' = ncmd
            []  f.pc = "L" /\ pending.t = "exc" ->
                  /\ Host(dtor(T0, TRUE, impl, f.b), Pop(stack), pending,
                          Step("make_function", pending.x))
                  /\ ncmd' = ncmd
    /\ UNCHANGED <<nops, wire, py_to_cpp, tblvars, remvars, lifevars, ghostvars, hobjs>>

\* the main program takes what its operation returned or threw: a function is
\* kept, any other result is a temporary and is destroyed, and so is a caught
\* exception proxy at the end of its handler
MainTakes ==
    /\ stack = <<>>
    /\ pending.t # "none"
    /\ phase = "alive"
    /\ LET keep == pending.t = "ret" /\ pending.x = "keep"
           t == IF keep THEN T0 ELSE dtor(T0, pending.v # 0, impl, pending.v)
       IN  /\ Host(t, stack, None,
                   Step("result", IF pending.t = "exc" THEN pending.x ELSE "ok"))
           /\ hobjs' = IF keep THEN hobjs \cup {pending.v} ELSE hobjs
    /\ UNCHANGED <<nops, wire, py_to_cpp, tblvars, remvars, lifevars, ghostvars, ncmd>>

(***************************************************************************)
(* handle_call: the callable and the catch clauses.                        *)
(***************************************************************************)

\* a handle_call that returns from its catch clause without cmd_exc
CatchObjectSilent(t, raw) ==
    /\ Host(dtor(t, TRUE, impl, raw), Pop(stack), None, Step("handle_call", "replied"))
    /\ UNCHANGED <<tblvars, ncmd>>

\* a handler that destroys the exception object before cmd_exc names it
CatchObjectDropFirst(t, raw) ==
    LET t2 == dtor(t, TRUE, impl, raw)
        t3 == send_cmd(t2, "e", raw, <<>>, 0, FALSE)
    IN  /\ IF t3.ok
             THEN Host(t3, Pop(stack), None, Step("handle_call", "replied"))
             ELSE Host(t3, Pop2(stack), IoError, Step("handle_call", "io_error"))
        /\ UNCHANGED <<tblvars, ncmd>>

\* catch(const object &exc): cmd_exc(exc); the exception object is destroyed
\* when the handler is left
CatchObject(t, raw) ==
    LET t2 == send_cmd(t, "e", raw, <<>>, 0, FALSE)
        t3 == dtor(t2, TRUE, impl, raw)
    IN  /\ IF t2.ok
             THEN Host(t3, Pop(stack), None, Step("handle_call", "replied"))
             ELSE Host(t3, Pop2(stack), IoError, Step("handle_call", "io_error"))
        /\ UNCHANGED <<tblvars, ncmd>>

\* a catch(...) that sends the exception as if it were a proxy
EnterCatchUnregistered(f, t, x) == CatchObject(t, Builtin)

\* catch(...): cmd_make_remote(std::current_exception()) registers the
\* exception and sends R; an exception thrown here leaves handle_call and the
\* wait_for_ret that called it
EnterCatch(f, t, x) ==
    LET r == Register(py_to_cpp_ptrs, py_to_cpp_ptrs_free_list, Slot("exc", NoNext, x))
        t2 == send_cmd(t, "R", r.idx, <<>>, ncmd + 1, FALSE)
    IN  /\ Registers(r)
        /\ ncmd' = ncmd + 1
        /\ IF ~r.ok
             THEN Host(t, Pop2(stack), Exc("bad_variant_access", 0), Step("handle_call", "bad_variant_access"))
             ELSE IF t2.ok
             THEN Host(t2, Pop(stack) \o <<[f EXCEPT !.pc = "catch1", !.a = 0, !.x = x], Wait(ncmd + 1)>>,
                       None, Step("handle_call", "caught"))
             ELSE Host(t2, Pop2(stack), IoError, Step("handle_call", "io_error"))

AtCallable ==
    /\ AtUser
    /\ stack # <<>>

\* the callable returns: cmd_ret with the proxy it holds (None when it holds
\* none), then the temporary is destroyed; an io_error from cmd_ret is inside
\* the try block
CallableReturn ==
    /\ AtCallable
    /\ LET f == Top(stack)
           t == send_cmd(T0, "r", f.a, <<>>, 0, FALSE)
           t2 == dtor(t, f.a # 0, impl, f.a)
       IN  IF t.ok
             THEN /\ Host(t2, Pop(stack), None, Step("handle_call", "replied"))
                  /\ UNCHANGED <<tblvars, ncmd>>
             ELSE EnterCatch(f, t2, "io_error")
    /\ UNCHANGED <<nops, wire, py_to_cpp, remvars, lifevars, ghostvars, hobjs>>

\* the callable throws an exception of its own
CallableThrow ==
    /\ AtCallable
    /\ nops < MaxOps
    /\ nops' = nops + 1
    /\ \E x \in NativeExcs :
         EnterCatch(Top(stack), dtor(T0, Top(stack).a # 0, impl, Top(stack).a), x)
    /\ UNCHANGED <<wire, py_to_cpp, remvars, lifevars, ghostvars, hobjs>>

\* the callable throws the proxy it holds
CallableThrowObject ==
    /\ AtCallable
    /\ Top(stack).a # 0
    /\ CatchObject(T0, Top(stack).a)
    /\ UNCHANGED <<nops, wire, py_to_cpp, remvars, lifevars, ghostvars, hobjs>>

\* fallback_call with no arity left: each argument is cooked and destroyed,
\* then proc.TypeError(...) is a command of its own, inside the try block
FallbackCall ==
    /\ stack # <<>> /\ Top(stack).k = "call" /\ Top(stack).pc = "fallback"
    /\ pending.t = "none"
    /\ LET f == Top(stack)
           t1 == dtor(T0, f.a # 0, impl, f.a)
           t2 == send_cmd(t1, "S", 0, <<>>, ncmd + 1, FALSE)
       IN  IF t2.ok
             THEN /\ Host(t2, Pop(stack) \o <<[f EXCEPT !.pc = "fallback2", !.a = 0], Wait(ncmd + 1)>>,
                          None, Step("handle_call", "fallback"))
                  /\ ncmd' = ncmd + 1
                  /\ UNCHANGED tblvars
             ELSE EnterCatch(f, t2, "io_error")
    /\ UNCHANGED <<nops, wire, py_to_cpp, remvars, lifevars, ghostvars, hobjs>>

\* a command of the callable has returned or thrown: the callable keeps the
\* result in place of the proxy it held, and lets an exception through; the
\* TypeError of fallback_call is sent with cmd_exc and destroyed
CallableTakes ==
    /\ stack # <<>> /\ Top(stack).k = "call" /\ Top(stack).pc \in {"run", "fallback2"}
    /\ pending.t # "none"
    /\ LET f == Top(stack)
           t == dtor(T0, f.a # 0, impl, f.a)
       IN  CASE pending.t = "ret" /\ f.pc = "fallback2" ->
                  CatchObject(t, pending.v)
            []  pending.t = "ret" /\ f.pc = "run" ->
                  /\ Host(t, Pop(stack) \o <<[f EXCEPT !.a = pending.v]>>, None,
                          Step("callable", "ok"))
                  /\ UNCHANGED <<tblvars, ncmd>>
            []  pending.t = "exc" /\ pending.x = "pyexc" ->
                  CatchObject(t, pending.v)
            []  pending.t = "exc" /\ pending.x # "pyexc" ->
                  EnterCatch(f, t, pending.x)
    /\ UNCHANGED <<nops, wire, py_to_cpp, remvars, lifevars, ghostvars, hobjs>>

\* the catch(...) clause goes on: the call of py_wrapped_cpp_exc on the
\* wrapper, then cmd_exc with the instance; the temporaries are destroyed in
\* the reverse order of their construction
CatchStep ==
    /\ stack # <<>> /\ Top(stack).k = "call" /\ Top(stack).pc \in {"catch1", "catch2"}
    /\ pending.t # "none"
    /\ LET f == Top(stack)
           tc == send_cmd(T0, "C", 1, <<CppExcType, pending.v>>, ncmd + 1, FALSE)
           te == send_cmd(T0, "e", pending.v, <<>>, 0, FALSE)
           td == dtor(dtor(te, TRUE, impl, pending.v), TRUE, impl, f.b)
       IN  CASE f.pc = "catch1" /\ pending.t = "ret" /\ tc.ok ->
                  /\ Host(tc, Pop(stack) \o <<[f EXCEPT !.pc = "catch2", !.b = pending.v], Wait(ncmd + 1)>>,
                          None, Step("handle_call", "caught"))
                  /\ ncmd' = ncmd + 1
            []  f.pc = "catch1" /\ pending.t = "ret" /\ ~tc.ok ->
                  /\ Host(dtor(tc, TRUE, impl, pending.v), Pop2(stack), IoError,
                          Step("handle_call", "io_error"))
                  /\ ncmd' = ncmd + 1
            []  f.pc = "catch1" /\ pending.t = "exc" ->
                  /\ Host(T0, Pop2(stack), pending, Step("handle_call", pending.x))
                  /\ ncmd' = ncmd
            []  f.pc = "catch2" /\ pending.t = "ret" /\ te.ok ->
                  /\ Host(td, Pop(stack), None, Step("handle_call", "replied"))
                  /\ ncmd' = ncmd
            []  f.pc = "catch2" /\ pending.t = "ret" /\ ~te.ok ->
                  /\ Host(td, Pop2(stack), IoError, Step("handle_call", "io_error"))
                  /\ ncmd' = ncmd
            []  f.pc = "catch2" /\ pending.t = "exc" ->
                  /\ Host(dtor(T0, TRUE, impl, f.b), Pop2(stack), pending,
                          Step("handle_call", pending.x))
                  /\ ncmd' = ncmd
    /\ UNCHANGED <<nops, wire, py_to_cpp, tblvars, remvars, lifevars, ghostvars, hobjs>>

\* an object of the interpreter's handle table, and the lookup of a handle
RObj(k, hidx, orig) == [k |-> k, hidx |-> hidx, live |-> TRUE, orig |-> orig]

RAt(objs, h) == IF h \in 1..Len(objs) THEN objs[h] ELSE RObj("none", NoNext, "")

(***************************************************************************)
(* wait_for_ret and rethrow_exc.                                           *)
(***************************************************************************)

\* a dispatcher that hands the frame to the oldest pending wait_for_ret
ReaderOutermost(stk) ==
    CHOOSE i \in 1..Len(stk) : stk[i].k = "wait" /\ \A j \in 1..(i - 1) : stk[j].k # "wait"

\* the invocation of wait_for_ret that reads the pipe is the innermost one
Reader(stk) == Len(stk)

Without(stk, i) == SubSeq(stk, 1, i - 1) \o SubSeq(stk, i + 1, Len(stk))

\* a rethrow_exc that never unwraps
is_wrapped_never(ans) == FALSE

\* a rethrow_exc that unwraps whatever it is given
is_wrapped_always(ans) == TRUE

\* exc_obj.type().is(py_wrapped_cpp_exc), by the answer to the query
is_wrapped(ans) == ans # NoNext

\* the cell rethrow_exc unwraps: the one the exception instance names
WrappedCell(ptrs, ptr_idx) == CellAt(ptrs, ptr_idx)

\* flush() at the top of the loop
WaitFlush ==
    /\ stack # <<>> /\ Top(stack).k = "wait" /\ Top(stack).pc = "flush"
    /\ pending.t = "none"
    /\ LET f == snaketongs_impl_flush(err, cpp_to_py, wire, child)
           t == [err |-> f.err, buf |-> f.buf, ok |-> f.ok,
                 log |-> <<Call("flush", f.ok, f.io, Len(cpp_to_py))>>]
       IN  /\ wire' = f.wire
           /\ IF f.ok
                THEN Host(t, Pop(stack) \o <<[Top(stack) EXCEPT !.pc = "recv"]>>, None,
                          Step("wait_for_ret", "flushed"))
                ELSE Host(t, Pop(stack), IoError, Step("wait_for_ret", "io_error"))
    /\ UNCHANGED <<nops, py_to_cpp, tblvars, remvars, lifevars, ghostvars, hobjs, ncmd>>

\* recv of one frame header and the switch on its opcode.  `c` enters
\* handle_call, `~` runs handle_del, `r` returns, `e` enters rethrow_exc, which
\* asks the interpreter whether exc_obj is an instance of py_wrapped_cpp_exc
\* and for its remote_idx (the commands of lines 427 to 434, as one query Q)
WaitRecv ==
    /\ stack # <<>> /\ Top(stack).k = "wait" /\ Top(stack).pc = "recv"
    /\ pending.t = "none"
    /\ CanRecv(err, py_to_cpp, child)
    /\ LET r == snaketongs_impl_recv(err, py_to_cpp)
           fr == r.data
           t == [err |-> r.err, buf |-> cpp_to_py, ok |-> r.ok,
                 log |-> <<Call("recv", r.ok, r.io, Len(cpp_to_py))>>]
           me == Reader(stack)
           w == stack[me]
           again == [stack EXCEPT ![me].pc = "flush"]
           tq == send_cmd(t, "Q", fr.arg, <<>>, ncmd + 1, FALSE)
           del == handle_del(py_to_cpp_ptrs, py_to_cpp_ptrs_free_list, fr.arg)
           cell == CellAt(py_to_cpp_ptrs, fr.arg)
       IN  /\ py_to_cpp' = r.inq
           /\ CASE ~r.ok ->
                     /\ Host(t, Pop(stack), IoError, Step("wait_for_ret", "io_error"))
                     /\ UNCHANGED <<tblvars, ncmd, match>>
               []  r.ok /\ fr.op = "c" /\ cell.tag = "fn" ->
                     /\ Host(recv_args(t, Len(fr.pl)),
                             Append(again, HFrame("call",
                                                  IF Len(fr.pl) = Arity THEN "run" ELSE "fallback",
                                                  fr.arg, IF fr.pl = <<>> THEN 0 ELSE fr.pl[1],
                                                  0, "")),
                             None, Step("wait_for_ret", "call"))
                     /\ UNCHANGED <<tblvars, ncmd, match>>
               []  r.ok /\ fr.op = "c" /\ cell.tag \in {"free", "exc"} ->
                     /\ Host(t, Pop(stack), Exc("bad_variant_access", 0),
                             Step("wait_for_ret", "bad_variant_access"))
                     /\ UNCHANGED <<tblvars, ncmd, match>>
               []  r.ok /\ fr.op \in {"c", "~"} /\ cell.tag = "wild" ->
                     /\ \E u \in Undefined : Outcome(t, Pop(stack), u, "wait_for_ret")
                     /\ UNCHANGED <<tblvars, ncmd, match>>
               []  r.ok /\ fr.op = "~" /\ cell.tag # "wild" ->
                     /\ Host(t, again, None, Step("wait_for_ret", "del"))
                     /\ py_to_cpp_ptrs' = del.ptrs
                     /\ py_to_cpp_ptrs_free_list' = del.head
                     /\ UNCHANGED <<ncmd, match, issued, reg>>
               []  r.ok /\ fr.op = "r" ->
                     /\ Host(t, Without(stack, me), Ret(fr.arg), Step("wait_for_ret", "return"))
                     /\ match' = [by |-> w.id, for |-> fr.id]
                     /\ UNCHANGED <<tblvars, ncmd>>
               []  r.ok /\ fr.op = "e" ->
                     /\ IF tq.ok
                          THEN Host(tq, Without(stack, me) \o
                                        <<HFrame("rethrow", "Q", w.id, fr.arg, 0, ""), Wait(ncmd + 1)>>,
                                    None, Step("wait_for_ret", "exception"))
                          ELSE Host(dtor(tq, TRUE, impl, fr.arg), Without(stack, me), IoError,
                                    Step("wait_for_ret", "io_error"))
                     /\ match' = [by |-> w.id, for |-> fr.id]
                     /\ ncmd' = ncmd + 1
                     /\ UNCHANGED tblvars
               []  r.ok /\ fr.op \notin {"c", "~", "r", "e"} ->
                     /\ Host(t, Pop(stack), IoError, Step("wait_for_ret", "invalid command"))
                     /\ UNCHANGED <<tblvars, ncmd, match>>
    /\ UNCHANGED <<nops, wire, remvars, lifevars, rethrown, hobjs>>

\* rethrow_exc goes on with the answer: the stored exception_ptr is rethrown
\* and exc_obj destroyed, or exc_obj is thrown as a cpp_wrapped_py_exc
RethrowStep ==
    /\ stack # <<>> /\ Top(stack).k = "rethrow"
    /\ pending.t # "none"
    /\ LET f == Top(stack)
           td == dtor(T0, TRUE, impl, f.a)
           cell == WrappedCell(py_to_cpp_ptrs, pending.v)
       IN  CASE pending.t = "exc" ->
                  /\ Host(td, Pop(stack), pending, Step("rethrow_exc", pending.x))
                  /\ UNCHANGED rethrown
            []  pending.t = "ret" /\ ~is_wrapped(pending.v) ->
                  /\ Host(T0, Pop(stack), Exc("pyexc", f.a), Step("rethrow_exc", "pyexc"))
                  /\ rethrown' = [x |-> "pyexc", orig |-> RAt(robj, f.a).orig]
            []  pending.t = "ret" /\ is_wrapped(pending.v) /\ cell.tag = "exc" ->
                  /\ Host(td, Pop(stack), Exc(cell.val, 0), Step("rethrow_exc", cell.val))
                  /\ rethrown' = [x |-> cell.val, orig |-> RAt(robj, f.a).orig]
            []  pending.t = "ret" /\ is_wrapped(pending.v) /\ cell.tag \in {"free", "fn"} ->
                  /\ Host(td, Pop(stack), Exc("bad_variant_access", 0),
                          Step("rethrow_exc", "bad_variant_access"))
                  /\ UNCHANGED rethrown
            []  pending.t = "ret" /\ is_wrapped(pending.v) /\ cell.tag = "wild" ->
                  /\ \E u \in Undefined : Outcome(td, Pop(stack), u, "rethrow_exc")
                  /\ UNCHANGED rethrown
    /\ UNCHANGED <<nops, wire, py_to_cpp, tblvars, remvars, lifevars, match, hobjs, ncmd>>

(***************************************************************************)
(* terminate() and ~process_t, called by the main program.                 *)
(***************************************************************************)

\* what the child does once its input is closed: it leaves its main loop with
\* status 0 on the final `r` frame, and fails on a bare end of input
ExitOnClose(c, w) ==
    IF c # "running" THEN c
    ELSE IF Len(w) > 0 /\ w[Len(w)].op = "r" THEN "exited0"
    ELSE "exited1"

\* a quit that leaves impl as it is
quit_keep(i) == i

\* process_base::quit: impl is cleared before snaketongs_impl_quit is called,
\* whatever it will return
quit(i) == "nullptr"

\* a destructor without the catch clauses
catch_nothing(x) == x

\* catch(const io_error &) {} around a statement that has thrown x ("" when it
\* has thrown nothing): what is still in flight after it
catch_io_error(x) == IF x = "io_error" THEN "" ELSE x

AtMain ==
    /\ phase = "alive"
    /\ stack = <<>>
    /\ pending.t = "none"
    /\ qpc = NoQuit

\* terminate: cmd_ret_from_main_loop; an io_error leaves terminate() before
\* quit()
Terminate ==
    /\ AtMain
    /\ impl = "impl"
    /\ \E fault \in SendFaults(child) :
         LET t == send_cmd(T0, "r", Sentinel, <<>>, 0, fault)
         IN  IF ~t.ok
               THEN /\ Host(t, stack, None, Step("terminate", "io_error"))
                    /\ term' = "send failed"
                    /\ UNCHANGED qpc
               ELSE /\ Host(t, stack, None, Step("terminate", "sent"))
                    /\ qpc' = Quitting("terminate", "quit", TRUE)
                    /\ UNCHANGED term
    /\ UNCHANGED <<impl, wire, child, py_to_cpp, tblvars, phase, closed, quits, reaped, rstack, robj,
                   rheld, rfns, garbled, ghostvars, hobjs, ncmd, nops>>

\* ~process_t: when not terminated, cmd_ret_from_main_loop with an io_error
\* swallowed, then quit(); when terminated, the members are released at once
Destructor ==
    /\ AtMain
    /\ hobjs = {}
    /\ IF impl = "impl"
         THEN \E fault \in SendFaults(child) :
                LET t == send_cmd(T0, "r", Sentinel, <<>>, 0, fault)
                    x == catch_io_error(IF t.ok THEN "" ELSE "io_error")
                IN  IF x = ""
                      THEN /\ Host(t, stack, None, Step("destructor", "sent"))
                           /\ qpc' = Quitting("destructor", "quit", TRUE)
                           /\ UNCHANGED <<phase, py_to_cpp_ptrs>>
                      ELSE /\ Host(t, stack, None, Step("destructor", x))
                           /\ phase' = "destroyed"
                           /\ py_to_cpp_ptrs' = <<>>
                           /\ UNCHANGED qpc
         ELSE /\ Host(T0, stack, None, Step("destructor", "ok"))
              /\ phase' = "destroyed"
              /\ py_to_cpp_ptrs' = <<>>
              /\ UNCHANGED qpc
    /\ UNCHANGED <<impl, wire, child, py_to_cpp, py_to_cpp_ptrs_free_list, issued, reg, term,
                   closed, quits, reaped, rstack, robj, rheld, rfns, garbled, ghostvars, hobjs,
                   ncmd, nops>>

\* the constructor of process_t throws after its base is built: the command
\* of a member initialiser (proc["builtins.bool"], ...) fails at its send.
\* The base is destroyed: ~process_base calls snaketongs_impl_quit, and does
\* not clear impl
ConstructorThrows ==
    /\ AtMain
    /\ impl = "impl"
    /\ ncmd = 0 /\ nops = 0 /\ term = "none" /\ ~err
    /\ TRUE \in SendFaults(child)
    /\ LET t == send_cmd(T0, "G", Builtin, <<>>, 0, TRUE)
       IN  Host(t, stack, None, Step("construct", "io_error"))
    /\ phase' = "failed"
    /\ qpc' = Quitting("~process_base", "close", TRUE)
    /\ UNCHANGED <<impl, wire, child, py_to_cpp, tblvars, term, closed, quits, reaped, rstack,
                   robj, rheld, rfns, garbled, ghostvars, hobjs, ncmd, nops>>

\* quit(): auto i = impl; impl = nullptr
QuitClear ==
    /\ qpc.pc = "quit"
    /\ impl' = quit(impl)
    /\ qpc' = [qpc EXCEPT !.pc = "close"]
    /\ Host(T0, stack, None, Step(qpc.who, "quit"))
    /\ UNCHANGED <<wire, child, py_to_cpp, tblvars, phase, term, closed, quits, reaped, rstack, robj,
                   rheld, rfns, garbled, ghostvars, hobjs, ncmd, nops>>

\* snaketongs_impl_quit: fclose(cpp_to_py), which writes the buffer out, and
\* fclose(py_to_cpp)
QuitClose ==
    /\ qpc.pc = "close"
    /\ LET f == fclose(cpp_to_py, wire, child)
       IN  /\ wire' = f.wire
           /\ qpc' = [qpc EXCEPT !.pc = "wait", !.ok = f.ok]
           /\ Host([T0 EXCEPT !.buf = <<>>], stack, None, Step(qpc.who, "closed"))
    /\ closed' = TRUE
    /\ quits' = IF quits < 2 THEN quits + 1 ELSE quits
    /\ UNCHANGED <<impl, child, py_to_cpp, tblvars, phase, term, reaped, rstack, robj,
                   rheld, rfns, garbled, ghostvars, hobjs, ncmd, nops>>

\* snaketongs_impl_quit goes on: waitid returns when the child has ended.
\* quit() throws io_error when it was not ok: terminate() lets it through
\* before py_to_cpp_ptrs.clear(), the destructor swallows it and releases the
\* members
QuitWait ==
    /\ qpc.pc = "wait"
    /\ child # "running"
    /\ LET ok == snaketongs_impl_quit(qpc.ok, child)
           x == IF ok THEN "" ELSE "io_error"
           y == catch_io_error(x)
       IN  IF qpc.who = "terminate"
             THEN /\ Host(T0, stack, None, Step("terminate", IF ok THEN "ok" ELSE x))
                  /\ term' = IF ok THEN "ok" ELSE "quit failed"
                  /\ py_to_cpp_ptrs' = IF ok THEN <<>> ELSE py_to_cpp_ptrs
                  /\ UNCHANGED phase
           ELSE IF qpc.who = "~process_base"
             THEN /\ Host(T0, stack, None, Step("construct", "io_error"))
                  /\ py_to_cpp_ptrs' = <<>>
                  /\ UNCHANGED <<phase, term>>
             ELSE /\ Host(T0, stack, None, Step("destructor", IF y = "" THEN "ok" ELSE y))
                  /\ phase' = "destroyed"
                  /\ py_to_cpp_ptrs' = <<>>
                  /\ UNCHANGED term
    /\ reaped' = TRUE
    /\ qpc' = NoQuit
    /\ UNCHANGED <<impl, wire, child, py_to_cpp, py_to_cpp_ptrs_free_list, issued, reg, closed, quits,
                   rstack, robj, rheld, rfns, garbled, ghostvars, hobjs, ncmd, nops>>

(***************************************************************************)
(* The interpreter.  It runs a stack of entries: a command of the host it  *)
(* is executing (cmd), or a call into the host it awaits the reply of      *)
(* (call).  Its handle table maps a RemoteIndex to what the object is; of  *)
(* an instance of py_wrapped_cpp_exc it keeps the HostIndex, and orig      *)
(* records which exception the callable had thrown.                        *)
(***************************************************************************)
REntry(k, op, id, arg, pl) == [k |-> k, op |-> op, id |-> id, arg |-> arg, pl |-> pl, x |-> 0, n |-> 0]

\* user code of the interpreter runs: a command that is not answered at once
Generic(e) == e.k = "cmd" /\ e.op = "C" /\ e.pl[1] # CppExcType

Running ==
    /\ child = "running"
    /\ rstack # <<>>
    /\ py_to_cpp = <<>>

\* a cell of the host that an entry of the stack or a handle of objs refers to
InUse(objs, stk, idx) ==
    \/ \E i \in 1..Len(stk) :
         \/ stk[i].k = "call" /\ stk[i].arg = idx
         \/ stk[i].x # 0 /\ RAt(objs, stk[i].x).hidx = idx
    \/ \E h \in 1..Len(objs) : objs[h].live /\ objs[h].hidx = idx

Remote(lst) ==
    /\ calls' = <<>>
    /\ last' = Step("remote", lst)
    /\ UNCHANGED <<impl, err, cpp_to_py, tblvars, phase, stack, pending, ncmd, nops, hobjs,
                   term, ghostvars, othervars, qpc, closed, quits, reaped>>

\* the interpreter reads one frame: a command, a drop, or the reply to its call.
\* A drop that takes the last reference to a wrapper of a host cell lets the
\* interpreter collect the wrapper, at once or never: it then sends `~`
RemoteRead ==
    /\ child = "running"
    /\ wire # <<>>
    /\ ~closed
    /\ IF rstack = <<>> THEN TRUE ELSE Top(rstack).k = "call"
    /\ LET fr == Head(wire)
           dead == [h \in 1..Len(robj) |->
                      IF h = fr.arg THEN [robj[h] EXCEPT !.live = FALSE] ELSE robj[h]]
           idx == RAt(robj, fr.arg).hidx
       IN  /\ wire' = Tail(wire)
           /\ CASE fr.op \in {"C", "R", "L", "Q", "S", "b"} ->
                     /\ rstack' = Append(rstack, REntry("cmd", fr.op, fr.id, fr.arg, fr.pl))
                     /\ UNCHANGED <<robj, rheld, rfns, py_to_cpp>>
               []  fr.op = "~" ->
                     /\ robj' = dead
                     /\ UNCHANGED rstack
                     /\ \E collect \in BOOLEAN :
                          IF collect /\ RAt(robj, fr.arg).live /\ idx \in rheld
                                     /\ ~InUse(dead, rstack, idx)
                            THEN /\ py_to_cpp' = Append(py_to_cpp, Frame("~", idx, <<>>, 0))
                                 /\ rheld' = rheld \ {idx}
                                 /\ rfns' = rfns \ {idx}
                            ELSE UNCHANGED <<rheld, rfns, py_to_cpp>>
               []  fr.op \in {"r", "e"} /\ rstack # <<>> ->
                     /\ rstack' = [Pop(rstack) EXCEPT ![Len(rstack) - 1].x =
                                     IF fr.op = "e" THEN fr.arg ELSE @]
                     /\ UNCHANGED <<robj, rheld, rfns, py_to_cpp>>
               []  fr.op \in {"r", "e"} /\ rstack = <<>> ->
                     UNCHANGED <<rstack, robj, rheld, rfns, py_to_cpp>>
    /\ Remote("read")
    /\ UNCHANGED <<child, garbled>>

\* R, L, the call of py_wrapped_cpp_exc, the query of rethrow_exc, the making
\* of a TypeError (S) and get_bytes (b, answered with the size and then the
\* bytes) are answered without running user code
RemoteAnswer ==
    /\ Running
    /\ Top(rstack).k = "cmd" /\ ~Generic(Top(rstack))
    /\ LET e == Top(rstack)
           new == Len(robj) + 1
           caught == IF Len(stack) >= 2 /\ stack[Len(stack) - 1].k = "call"
                       THEN stack[Len(stack) - 1].x ELSE ""
       IN  CASE e.op = "R" ->
                  /\ robj' = Append(robj, RObj("wrapper", e.arg, ""))
                  /\ rheld' = rheld \cup {e.arg}
                  /\ py_to_cpp' = <<Frame("r", new, <<>>, e.id)>>
                  /\ UNCHANGED rfns
            []  e.op = "L" ->
                  /\ robj' = Append(robj, RObj("fn", RAt(robj, e.arg).hidx, ""))
                  /\ rfns' = rfns \cup ({RAt(robj, e.arg).hidx} \cap rheld)
                  /\ py_to_cpp' = <<Frame("r", new, <<>>, e.id)>>
                  /\ UNCHANGED rheld
            []  e.op = "C" ->
                  /\ robj' = Append(robj, RObj("cppexc", RAt(robj, e.pl[2]).hidx, caught))
                  /\ py_to_cpp' = <<Frame("r", new, <<>>, e.id)>>
                  /\ UNCHANGED <<rheld, rfns>>
            []  e.op = "Q" ->
                  /\ py_to_cpp' = <<Frame("r", IF RAt(robj, e.arg).k = "cppexc" THEN RAt(robj, e.arg).hidx
                                               ELSE NoNext, <<>>, e.id)>>
                  /\ UNCHANGED <<robj, rheld, rfns>>
            []  e.op = "S" ->
                  /\ robj' = Append(robj, RObj("pyexc", NoNext, ""))
                  /\ py_to_cpp' = <<Frame("r", new, <<>>, e.id)>>
                  /\ UNCHANGED <<rheld, rfns>>
            []  e.op = "b" ->
                  /\ \E size \in {0, 1} :
                       py_to_cpp' = IF size = 0 THEN <<Frame("r", 0, <<>>, e.id)>>
                                    ELSE <<Frame("r", size, <<>>, e.id), Frame(".", 0, <<>>, e.id)>>
                  /\ UNCHANGED <<robj, rheld, rfns>>
    /\ rstack' = Pop(rstack)
    /\ Remote("answer")
    /\ UNCHANGED <<wire, child, garbled>>

\* the command returns a new object
RemoteReturn ==
    /\ Running
    /\ Generic(Top(rstack))
    /\ robj' = Append(robj, RObj("plain", NoNext, ""))
    /\ py_to_cpp' = <<Frame("r", Len(robj) + 1, <<>>, Top(rstack).id)>>
    /\ rstack' = Pop(rstack)
    /\ Remote("return")
    /\ UNCHANGED <<wire, child, rheld, rfns, garbled>>

\* the command ends with an exception: one of the interpreter's own, or the
\* one a host callable replied with, which it lets through or raises again
RemoteRaise ==
    /\ Running
    /\ Generic(Top(rstack))
    /\ \E own \in BOOLEAN :
         /\ ~own => Top(rstack).x # 0
         /\ robj' = Append(robj, IF own THEN RObj("pyexc", NoNext, "")
                                 ELSE [RAt(robj, Top(rstack).x) EXCEPT !.live = TRUE])
    /\ py_to_cpp' = <<Frame("e", Len(robj) + 1, <<>>, Top(rstack).id)>>
    /\ rstack' = Pop(rstack)
    /\ Remote("raise")
    /\ UNCHANGED <<wire, child, rheld, rfns, garbled>>

\* the command calls a function of the host, with new handles for the
\* arguments
RemoteCall ==
    /\ Running
    /\ Generic(Top(rstack))
    /\ Top(rstack).n < MaxCalls
    /\ Cardinality({i \in 1..Len(rstack) : rstack[i].k = "call"}) < MaxDepth
    /\ \E idx \in rfns, num_args \in 0..(Arity + 1) :
         LET args == [i \in 1..num_args |-> Len(robj) + i]
         IN  /\ py_to_cpp' = <<Frame("c", idx, args, 0)>>
             /\ robj' = robj \o [i \in 1..num_args |-> RObj("plain", NoNext, "")]
             /\ rstack' = Append([rstack EXCEPT ![Len(rstack)].n = @ + 1],
                                 REntry("call", "c", 0, idx, <<>>))
    /\ Remote("call")
    /\ UNCHANGED <<wire, child, rheld, rfns, garbled>>

\* in place of its reply the command ends with a frame that is none of c, ~,
\* r, e
RemoteGarbage ==
    /\ Running
    /\ Generic(Top(rstack))
    /\ ~garbled
    /\ py_to_cpp' = <<Frame("?", 0, <<>>, Top(rstack).id)>>
    /\ rstack' = Pop(rstack)
    /\ garbled' = TRUE
    /\ Remote("garbage")
    /\ UNCHANGED <<wire, child, robj, rheld, rfns>>

\* the child exits while it runs a command (os._exit) or is killed while idle
ChildExit ==
    /\ child = "running"
    /\ IF rstack = <<>> THEN TRUE ELSE Generic(Top(rstack))
    /\ \E c \in {"exited0", "exited1"} : child' = c
    /\ Remote("exit")
    /\ UNCHANGED <<wire, py_to_cpp, robj, rstack, rheld, rfns, garbled>>

\* the child finds its input closed: it reads what is left and ends
RemoteEof ==
    /\ child = "running"
    /\ closed
    /\ child' = ExitOnClose(child, wire)
    /\ Remote("eof")
    /\ UNCHANGED <<wire, py_to_cpp, robj, rstack, rheld, rfns, garbled>>

(***************************************************************************)
(* class object: the proxies the user code keeps in variables, and the     *)
(* moves, assignments, swaps and destructions it performs on them.  proc is *)
(* TRUE while the proxy points to the bridge, FALSE when it is null.       *)
(***************************************************************************)
\* the variables of the user code
Vars == {"a", "b", "c"}

\* RemoteIndexes the user code wraps in one run
MaxObjs == 2

\* no object lives in the variable
Absent == [st |-> "absent", proc |-> FALSE, raw |-> 0]

\* object(proc, raw), and object(nullptr) when nonnull is FALSE
Proxy(nonnull, raw) == [st |-> "object", proc |-> nonnull, raw |-> raw]

\* the frames given to the transport since construction
Sent == wire \o cpp_to_py

\* the `~` frames sent for RemoteIndex i
Drops(i) == Cardinality({k \in 1..Len(Sent) : Sent[k].op = "~" /\ Sent[k].arg = i})

\* the proxies that point to the bridge and hold RemoteIndex i
Owners(i) == Cardinality({v \in Vars : proxies[v].st = "object" /\ proxies[v].proc
                                      /\ proxies[v].raw = i})

\* what a step on proxies sets of the transport
Sends(t, lst) ==
    /\ err' = t.err
    /\ cpp_to_py' = t.buf
    /\ calls' = t.log
    /\ last' = lst

proxyrest == <<impl, wire, py_to_cpp, child, tblvars, phase, stack, pending, ncmd, nops,
               rstack, robj, rheld, rfns, hobjs, term, ghostvars, garbled, xop, excs, inv, it,
               boot, num, fl, sz, snd, qpc, closed, quits, reaped>>

AtProxies ==
    /\ phase = "alive"
    /\ stack = <<>>
    /\ qpc = NoQuit
    /\ xop.kind = "idle"

\* cook: an operation has returned a RemoteIndex, wrapped in a new proxy
ProxyCook ==
    /\ AtProxies
    /\ impl = "impl"
    /\ made < MaxObjs
    /\ \E v \in Vars :
         /\ proxies[v].st = "absent"
         /\ proxies' = [proxies EXCEPT ![v] = Proxy(TRUE, made + 1)]
    /\ made' = made + 1
    /\ Sends(T0, Step("cook", "ok"))
    /\ UNCHANGED proxyrest

\* object(nullptr): raw is left uninitialized, so it holds any value
ProxyNull ==
    /\ AtProxies
    /\ \E v \in Vars, raw \in 0..MaxObjs :
         /\ proxies[v].st = "absent"
         /\ proxies' = [proxies EXCEPT ![v] = Proxy(FALSE, raw)]
    /\ Sends(T0, Step("object(nullptr)", "ok"))
    /\ UNCHANGED <<made, proxyrest>>

\* object(object &&from)
ProxyMove ==
    /\ AtProxies
    /\ \E to \in Vars, from \in Vars :
         /\ proxies[to].st = "absent"
         /\ proxies[from].st = "object"
         /\ proxies' = [proxies EXCEPT ![to] = Proxy(proxies[from].proc, proxies[from].raw),
                                       ![from].proc = FALSE]
    /\ Sends(T0, Step("object(object &&)", "ok"))
    /\ UNCHANGED <<made, proxyrest>>

\* operator=(object &&from): nothing on self-assignment; else drop, take over
\* from's fields and null from.  An io_error of drop leaves both as they were
ProxyMoveAssign ==
    /\ AtProxies
    /\ \E to \in Vars, from \in Vars, fault \in SendFaults(child) :
         /\ proxies[to].st = "object"
         /\ proxies[from].st = "object"
         /\ LET t == drop(T0, proxies[to].proc, impl, proxies[to].raw, fault)
            IN  IF to = from
                  THEN /\ Sends(T0, Step("operator=(object &&)", "ok"))
                       /\ UNCHANGED proxies
                  ELSE IF t.ok
                  THEN /\ Sends(t, Step("operator=(object &&)", "ok"))
                       /\ proxies' = [proxies EXCEPT
                                        ![to] = Proxy(proxies[from].proc, proxies[from].raw),
                                        ![from].proc = FALSE]
                  ELSE /\ Sends(t, Step("operator=(object &&)", "io_error"))
                       /\ UNCHANGED proxies
    /\ UNCHANGED <<made, proxyrest>>

\* operator=(nullptr): drop, then proc = nullptr
ProxyAssignNull ==
    /\ AtProxies
    /\ \E v \in Vars, fault \in SendFaults(child) :
         /\ proxies[v].st = "object"
         /\ LET t == drop(T0, proxies[v].proc, impl, proxies[v].raw, fault)
            IN  IF t.ok
                  THEN /\ Sends(t, Step("operator=(nullptr)", "ok"))
                       /\ proxies' = [proxies EXCEPT ![v].proc = FALSE]
                  ELSE /\ Sends(t, Step("operator=(nullptr)", "io_error"))
                       /\ UNCHANGED proxies
    /\ UNCHANGED <<made, proxyrest>>

\* swap(object &, object &)
ProxySwap ==
    /\ AtProxies
    /\ \E v \in Vars, w \in Vars :
         /\ v # w
         /\ proxies[v].st = "object"
         /\ proxies[w].st = "object"
         /\ proxies' = [proxies EXCEPT ![v] = proxies[w], ![w] = proxies[v]]
    /\ Sends(T0, Step("swap", "ok"))
    /\ UNCHANGED <<made, proxyrest>>

\* ~object: drop with an io_error swallowed
ProxyDestroy ==
    /\ AtProxies
    /\ \E v \in Vars :
         /\ proxies[v].st = "object"
         /\ Sends(dtor(T0, proxies[v].proc, impl, proxies[v].raw), Step("~object", "ok"))
         /\ proxies' = [proxies EXCEPT ![v] = Absent]
    /\ UNCHANGED <<made, proxyrest>>

(***************************************************************************)
(* struct cpp_wrapped_py_exc: the exception proxies the user code has      *)
(* caught and keeps, possibly longer than the bridge.  A variable whose    *)
(* proxy has been destroyed keeps the fields the proxy had, with st        *)
(* "destroyed".                                                            *)
(***************************************************************************)
\* the description repr() gives of the object with RemoteIndex raw
repr(raw) == <<"repr of 1", "repr of 2", "repr of 3", "repr of 4">>[raw]

\* no exception proxy has lived in the variable
NoExc == [st |-> "absent", proc |-> FALSE, raw |-> 0, msg |-> ""]

\* a checked_dtor_object with the msg of the cpp_wrapped_py_exc around it
ExcProxy(nonnull, raw, msg) == [st |-> "exception", proc |-> nonnull, raw |-> raw, msg |-> msg]

\* a proc_expired that never sees the canary die
expired_never(ph) == FALSE

\* the lambda of process_t::expired: the canary is gone once ~process_t has
\* released the members
expired(ph) == ph = "destroyed"

\* process_base::terminated
terminated(i) == i # "impl"

\* what a call through a pointer that is null or dangling does
Dangling == {"crash", "nullptr", "impl"}

excrest == <<wire, py_to_cpp, child, tblvars, phase, pending, ncmd, nops, rstack, robj, rheld,
             rfns, hobjs, term, ghostvars, garbled, xop, proxies, qpc, closed, quits, reaped,
             impl, inv, it, boot, num, fl, sz, snd>>

\* the user code is between two statements of the main program, whatever has
\* become of the bridge
AtExcs ==
    /\ stack = <<>>
    /\ pending.t = "none"
    /\ qpc = NoQuit
    /\ xop.kind = "idle"

\* cpp_wrapped_py_exc(object &&obj): rethrow_exc has thrown exc_obj wrapped, and
\* the user code keeps what it caught; msg(repr()) has been answered
ExcCatch ==
    /\ AtExcs
    /\ phase = "alive"
    /\ impl = "impl"
    /\ made < MaxObjs
    /\ \E v \in Vars :
         /\ excs[v].st = "absent"
         /\ excs' = [excs EXCEPT ![v] = ExcProxy(TRUE, made + 1, repr(made + 1))]
    /\ made' = made + 1
    /\ Sends(T0, Step("cpp_wrapped_py_exc(object &&)", "ok"))
    /\ UNCHANGED <<excrest, stack>>

\* cpp_wrapped_py_exc(cpp_wrapped_py_exc &&): object(object &&) and a copy of
\* msg, which is const
ExcMove ==
    /\ AtExcs
    /\ \E to \in Vars, from \in Vars :
         /\ excs[to].st = "absent"
         /\ excs[from].st = "exception"
         /\ excs' = [excs EXCEPT ![to] = ExcProxy(excs[from].proc, excs[from].raw,
                                                  excs[from].msg),
                                 ![from].proc = FALSE]
    /\ Sends(T0, Step("cpp_wrapped_py_exc(cpp_wrapped_py_exc &&)", "ok"))
    /\ UNCHANGED <<excrest, stack, made>>

\* what()
ExcWhat ==
    /\ AtExcs
    /\ \E v \in Vars :
         /\ excs[v].st = "exception"
         /\ Sends(T0, Step("what", excs[v].msg))
    /\ UNCHANGED <<excrest, stack, made, excs>>

\* dup() const &: {*this, msg}, whose checked_dtor_object is obj.dup():
\* object(nullptr) when proc_expired() || proc->terminated(), else
\* object::dup(), which is cmd_dup.  proc->terminated() goes through proc,
\* which is null in a null proxy; of object(nullptr) raw is uninitialized
ExcDup ==
    /\ AtExcs
    /\ \E to \in Vars, from \in Vars, raw \in 0..MaxObjs, u \in Dangling,
          fault \in SendFaults(child) :
         /\ excs[to].st = "absent"
         /\ excs[from].st = "exception"
         /\ LET e == excs[from]
                null == [excs EXCEPT ![to] = ExcProxy(FALSE, raw, e.msg)]
                t == send_cmd(T0, "D", e.raw, <<>>, 0, fault)
            IN  CASE expired(phase) ->
                       /\ excs' = null
                       /\ Sends(T0, Step("dup", "ok"))
                       /\ UNCHANGED <<stack, made>>
                 []  ~expired(phase) /\ ~e.proc /\ u = "nullptr" ->
                       /\ excs' = null
                       /\ Sends(T0, Step("dup", "null dereference"))
                       /\ UNCHANGED <<stack, made>>
                 []  ~expired(phase) /\ ~e.proc /\ u # "nullptr" ->
                       /\ stack' = <<Crashed>>
                       /\ Sends(T0, Step("dup", "crash"))
                       /\ UNCHANGED <<excs, made>>
                 []  ~expired(phase) /\ e.proc /\ terminated(impl) ->
                       /\ excs' = null
                       /\ Sends(T0, Step("dup", "ok"))
                       /\ UNCHANGED <<stack, made>>
                 []  ~expired(phase) /\ e.proc /\ ~terminated(impl) /\ t.ok ->
                       /\ made < MaxObjs
                       /\ excs' = [excs EXCEPT ![to] = ExcProxy(TRUE, made + 1, e.msg)]
                       /\ made' = made + 1
                       /\ Sends(t, Step("dup", "ok"))
                       /\ UNCHANGED stack
                 []  ~expired(phase) /\ e.proc /\ ~terminated(impl) /\ ~t.ok ->
                       /\ Sends(t, Step("dup", "io_error"))
                       /\ UNCHANGED <<stack, made, excs>>
    /\ UNCHANGED excrest

\* ~checked_dtor_object: proc = nullptr when proc_expired(); then ~object, whose
\* drop asks proc->terminated() of a bridge that must still be there
ExcDestroy ==
    /\ AtExcs
    /\ \E v \in Vars, u \in Dangling :
         /\ excs[v].st = "exception"
         /\ LET e == excs[v]
                nonnull == e.proc /\ ~expired(phase)
            IN  CASE ~(nonnull /\ phase = "destroyed") ->
                       /\ Sends(dtor(T0, nonnull, impl, e.raw),
                                Step("~cpp_wrapped_py_exc", "ok"))
                       /\ UNCHANGED stack
                 []  nonnull /\ phase = "destroyed" /\ u = "crash" ->
                       /\ Sends(T0, Step("~cpp_wrapped_py_exc", "crash"))
                       /\ stack' = <<Crashed>>
                 []  nonnull /\ phase = "destroyed" /\ u # "crash" ->
                       /\ Sends(dtor(T0, nonnull, u, e.raw),
                                Step("~cpp_wrapped_py_exc", "use after free"))
                       /\ UNCHANGED stack
         /\ excs' = [excs EXCEPT ![v].st = "destroyed"]
    /\ UNCHANGED <<excrest, made>>

(***************************************************************************)
(* Coercion of arguments: an operation of this bridge whose arguments are  *)
(* proxies of this bridge ("own"), values that into_object turns into an   *)
(* object by a command ("value"), and proxies of another bridge ("foreign").*)
(* The arguments are coerced from left to right; the interpreter answers   *)
(* each command with a new RemoteIndex.                                    *)
(***************************************************************************)
\* arguments of one operation
MaxArgs == 2

ArgKinds == {"own", "value", "foreign"}

\* the argument lists of length n
ArgLists(n) == [1..n -> ArgKinds]

\* no operation is under way; else kind is the operation, pos the argument to
\* coerce next, raws what the coerced arguments gave, temps the temporaries
\* alive, res how far the operation is
Idle == [kind |-> "idle", args |-> <<>>, pos |-> 0, raws |-> <<>>, temps |-> <<>>,
         res |-> "idle"]

\* an into_object that does not compare proc
into_object_unchecked(same) == "ok"

\* into_object(const object &): the proxy itself when its proc is this bridge
into_object(same) == IF same THEN "ok" ELSE "invalid_argument"

\* the transport with the pipe, for the steps that send and wait
X0 == [err |-> err, buf |-> cpp_to_py, log |-> <<>>, ok |-> TRUE, wire |-> wire]

\* a command and the wait for its reply: send_cmd, then the flush of
\* wait_for_ret
Request(x, op, arg, pl) ==
    LET s == send_cmd(x, op, arg, pl, 0, FALSE)
        f == snaketongs_impl_flush(s.err, s.buf, x.wire, child)
    IN  [err |-> f.err, buf |-> f.buf, ok |-> s.ok /\ f.ok, wire |-> f.wire,
         log |-> Append(s.log, Call("flush", f.ok, f.io, Len(s.buf)))]

\* the temporaries of the full expression are destroyed, the latest first
RECURSIVE Destroy(_, _)
Destroy(x, temps) ==
    IF temps = <<>> THEN x
    ELSE LET d == dtor(x, TRUE, impl, temps[Len(temps)])
         IN  Destroy([err |-> d.err, buf |-> d.buf, log |-> d.log, ok |-> d.ok,
                      wire |-> x.wire], Pop(temps))

\* what a step of the operation sets
Crosses(x, o, lst) ==
    /\ err' = x.err
    /\ cpp_to_py' = x.buf
    /\ wire' = x.wire
    /\ calls' = x.log
    /\ xop' = o
    /\ last' = lst

crossrest == <<impl, py_to_cpp, child, tblvars, phase, stack, pending, ncmd, nops, rstack,
               robj, rheld, rfns, hobjs, term, ghostvars, garbled, proxies, excs, inv, it,
               boot, num, fl, sz, snd, qpc, closed, quits, reaped>>

\* the operation starts.  A plain call and a tuple take any arguments, an
\* operator its own left operand and one more; a star-call first builds its
\* args_kwargs_builder: proc.list() and proc.dict()
CrossBegin ==
    /\ AtMain
    /\ impl = "impl"
    /\ xop.kind = "idle"
    /\ \E kind \in {"call", "tuple", "operator", "starcall"}, n \in 0..MaxArgs :
         \E args \in ArgLists(n) :
           /\ kind = "operator" => n = 2 /\ args[1] = "own"
           /\ kind = "starcall" => n >= 1
           /\ LET x == IF kind = "starcall"
                         THEN Request(Request(X0, "C", 0, <<Builtin>>), "C", 0, <<Builtin>>)
                         ELSE X0
                  temps == IF kind = "starcall" THEN <<made + 1, made + 2>> ELSE <<>>
              IN  /\ Crosses(x, [kind |-> kind, args |-> args, pos |-> 1, raws |-> <<>>,
                                 temps |-> temps, res |-> "coercing"],
                             Step(kind, "begun"))
                  /\ made' = made + Len(temps)
    /\ UNCHANGED crossrest

\* the next argument is coerced.  In a star-call this is b.add: the lookup of
\* the builder's method (its name made a str, then getattr) comes first, and
\* the call of the method with the coerced argument after
CrossCoerce ==
    /\ AtMain
    /\ xop.res = "coercing"
    /\ xop.pos <= Len(xop.args)
    /\ LET star == xop.kind = "starcall"
           arg == xop.args[xop.pos]
           x1 == IF star THEN Request(Request(X0, "S", 6, <<>>), "C", 2, <<Builtin>>) ELSE X0
           m1 == IF star THEN made + 2 ELSE made
           t1 == IF star THEN xop.temps \o <<made + 1, made + 2>> ELSE xop.temps
           res == into_object(arg # "foreign")
           x2 == IF arg = "value" THEN Request(x1, "I", 7, <<>>) ELSE x1
           m2 == IF arg = "value" THEN m1 + 1 ELSE m1
           t2 == IF arg = "value" THEN Append(t1, m2) ELSE t1
           raw == IF arg = "value" THEN m2 ELSE Builtin
           x3 == IF star THEN Request(x2, "C", 1, <<m1, raw>>) ELSE x2
           m3 == IF star THEN m2 + 1 ELSE m2
           t3 == IF star THEN Append(t2, m3) ELSE t2
       IN  IF arg \in {"own", "foreign"} /\ res = "invalid_argument"
             THEN /\ Crosses(Destroy(x1, t1),
                             [xop EXCEPT !.res = "invalid_argument", !.temps = <<>>],
                             Step(xop.kind, "invalid_argument"))
                  /\ made' = m1
             ELSE /\ Crosses(x3, [xop EXCEPT !.pos = @ + 1, !.raws = Append(@, raw),
                                             !.temps = t3],
                             Step(xop.kind, "coerced"))
                  /\ made' = m3
    /\ UNCHANGED crossrest

\* every argument is coerced: cmd_call, cmd_make_tuple or cmd_starcall sends
\* the operation's frame, and the temporaries are destroyed when it returns
CrossSend ==
    /\ AtMain
    /\ xop.res = "coercing"
    /\ xop.pos > Len(xop.args)
    /\ LET op == CASE xop.kind = "tuple" -> "T"
                   [] xop.kind = "starcall" -> "X"
                   [] OTHER -> "C"
           x == Request(X0, op, Len(xop.raws), xop.raws)
       IN  /\ Crosses(Destroy(x, Append(xop.temps, made + 1)),
                      [xop EXCEPT !.res = "returned", !.temps = <<>>],
                      Step(xop.kind, "returned"))
           /\ made' = made + 1
    /\ UNCHANGED crossrest

(***************************************************************************)
(* handle_call argument by argument.  The interpreter calls a callable     *)
(* made by make_function (functor_wrapper, whose parameters are objects or *)
(* integers) or by make_variadic_function.  functor_wrapper::call          *)
(* initializes the parameters in an order the compiler chooses: each       *)
(* argument is cooked and, for an integer parameter, converted by          *)
(* cmd_get_int, which throws when the interpreter answers with `e`.  held  *)
(* lists the RemoteIndexes that a parameter or a temporary owns.           *)
(***************************************************************************)
ParamKinds == {"object", "int"}

\* the orders in which n parameters can be initialized
Perms(n) == {p \in [1..n -> 1..n] : \A i, j \in 1..n : p[i] = p[j] => i = j}

\* takes lists the numbers of arguments below MaxArity that the functor can
\* be called with, ran tells whether the user's functor has been called and
\* given with which arguments
NoCall == [st |-> "idle", params |-> <<>>, args |-> <<>>, order |-> <<>>, pos |-> 0,
           held |-> <<>>, res |-> "", variadic |-> FALSE, takes |-> {}, ran |-> FALSE,
           given |-> <<>>]

\* a fallback_call that does not ask whether the functor takes PossibleArity
\* arguments
RECURSIVE fallback_call_any(_, _, _)
fallback_call_any(PossibleArity, num_args, takes) ==
    IF PossibleArity + 1 # 0
      THEN IF num_args = PossibleArity THEN "call"
           ELSE fallback_call_any(PossibleArity - 1, num_args, takes)
      ELSE "TypeError"

\* fallback_call<PossibleArity>: call when the functor is a pythonizable_fn of
\* PossibleArity arguments and num_args is that number, else the next smaller
\* arity; below 0 (PossibleArity + 1 is 0) the TypeError
RECURSIVE fallback_call(_, _, _)
fallback_call(PossibleArity, num_args, takes) ==
    IF PossibleArity + 1 # 0
      THEN IF PossibleArity \in takes /\ num_args = PossibleArity THEN "call"
           ELSE fallback_call(PossibleArity - 1, num_args, takes)
      ELSE "TypeError"

\* functor_wrapper::operator()
functor_wrapper(MaxArity, num_args, takes) ==
    IF num_args = MaxArity THEN "call" ELSE fallback_call(MaxArity - 1, num_args, takes)

\* the RemoteIndex of the exception a conversion or a callable throws, above
\* those of the arguments
ExcRaw == MaxCalls * (MaxArgs + 1) + 1

\* the RemoteIndex held by a proxy of another bridge: a number of that
\* bridge's interpreter, kept apart here from the indexes this bridge was given
ForeignRaw == ExcRaw + 1

\* what a step of handle_call sets
Invokes(x, o, lst) ==
    /\ err' = x.err
    /\ cpp_to_py' = x.buf
    /\ calls' = x.log
    /\ inv' = o
    /\ last' = lst

callrest == <<impl, wire, py_to_cpp, child, tblvars, phase, stack, pending, ncmd, rstack, robj,
              rheld, rfns, hobjs, term, ghostvars, garbled, proxies, excs, xop, qpc, closed,
              quits, reaped, it, boot, num, fl, sz, snd>>

\* a send by a step that goes on to destroy temporaries
Sending(x, op, arg, fault) ==
    LET s == send_cmd(x, op, arg, <<>>, 0, fault)
    IN  [err |-> s.err, buf |-> s.buf, log |-> s.log, ok |-> s.ok, wire |-> x.wire]

Reverse(seq) == [i \in 1..Len(seq) |-> seq[Len(seq) + 1 - i]]

\* handle_call: num_args and the arguments are read; operator() takes call
\* when num_args is the arity and fallback_call otherwise, the lambda of
\* make_variadic_function any number.  nops counts the calls
CallBegin ==
    /\ inv.st = "idle"
    /\ phase = "alive" /\ impl = "impl" /\ stack = <<>> /\ qpc = NoQuit
    /\ nops < MaxCalls
    /\ nops' = nops + 1
    /\ \E variadic \in BOOLEAN, arity \in 0..MaxArgs, num_args \in 0..(MaxArgs + 1) :
         \E params \in [1..arity -> ParamKinds], order \in Perms(num_args),
            takes \in SUBSET (0..(arity - 1)) :
           /\ variadic => (arity = 0 /\ \A i \in 1..num_args : order[i] = i)
           /\ Invokes(recv_args(X0, num_args),
                      [NoCall EXCEPT !.st = IF variadic THEN "vector"
                                            ELSE IF functor_wrapper(arity, num_args, takes) = "call"
                                            THEN "args"
                                            ELSE "fallback",
                                     !.variadic = variadic,
                                     !.takes = takes,
                                     !.params = params,
                                     !.args = [i \in 1..num_args |-> made + i],
                                     !.order = order],
                      Step("handle_call", "args"))
           /\ made' = made + num_args
    /\ UNCHANGED callrest

\* call: the next parameter is initialized from cook_implicit(args[I]).  A
\* conversion that throws unwinds what has been cooked so far, and the catch
\* clause of handle_call sends the exception with cmd_exc (an io_error goes
\* on out of handle_call)
CallArg ==
    /\ inv.st = "args"
    /\ inv.pos < Len(inv.args)
    /\ LET i == inv.order[inv.pos + 1]
           raw == inv.args[i]
           cooked == Append(inv.held, raw)
       IN  IF inv.params[i] = "object"
             THEN Invokes(X0, [inv EXCEPT !.pos = @ + 1, !.held = cooked], Step("call", "cooked"))
             ELSE \E fault \in SendFaults(child), answer \in {"r", "e"} :
                    LET t == Sending(X0, "i", raw, fault)
                        unwound == Destroy(t, cooked)
                        e == Sending(unwound, "e", ExcRaw, FALSE)
                    IN  CASE t.ok /\ answer = "r" ->
                               Invokes(t, [inv EXCEPT !.pos = @ + 1, !.held = cooked],
                                       Step("call", "converted"))
                         []  t.ok /\ answer = "e" ->
                               Invokes(Destroy(e, <<ExcRaw>>),
                                       [inv EXCEPT !.st = "done", !.held = <<>>, !.res = "pyexc"],
                                       Step("handle_call", "pyexc"))
                         []  ~t.ok ->
                               Invokes(unwound,
                                       [inv EXCEPT !.st = "done", !.held = <<>>, !.res = "io_error"],
                                       Step("handle_call", "io_error"))
    /\ UNCHANGED <<callrest, made, nops>>

\* call goes on: the callable runs with all its parameters.  It returns
\* nothing (the temporaries are destroyed, then cmd_ret(None)), returns a value
\* (cmd_ret inside the full expression, then the temporaries are destroyed) or
\* throws an object (the stack is unwound, then cmd_exc).  The object thrown is
\* a proxy of this bridge or of another one: catch(const object &exc) passes
\* exc.raw to cmd_exc without looking at exc.proc, and the destructor of a
\* proxy of another bridge sends its `~` to that bridge
CallRun ==
    /\ inv.st = "args"
    /\ inv.pos = Len(inv.args)
    /\ \E how \in {"void", "value", "throw", "throw foreign"} :
         LET gone == Destroy(X0, inv.held)
             run == [inv EXCEPT !.st = "done", !.held = <<>>, !.ran = TRUE,
                                !.given = [i \in 1..Len(inv.args) |-> inv.args[i]]]
         IN  CASE how = "void" ->
                    Invokes(Sending(gone, "r", Builtin, FALSE),
                            [run EXCEPT !.res = "replied"],
                            Step("handle_call", "replied"))
              []  how = "value" ->
                    Invokes(Destroy(Sending(X0, "r", Builtin, FALSE), inv.held),
                            [run EXCEPT !.res = "replied"],
                            Step("handle_call", "replied"))
              []  how = "throw" ->
                    Invokes(Destroy(Sending(gone, "e", ExcRaw, FALSE), <<ExcRaw>>),
                            [run EXCEPT !.res = "pyexc"],
                            Step("handle_call", "pyexc"))
              []  how = "throw foreign" ->
                    Invokes(Sending(gone, "e", ForeignRaw, FALSE),
                            [run EXCEPT !.res = "pyexc"],
                            Step("handle_call", "pyexc"))
    /\ UNCHANGED <<callrest, made, nops>>

\* fallback_call with no arity left: each argument is cooked and destroyed at
\* once, then proc.TypeError(...) is made and sent with cmd_exc
CallFallback ==
    /\ inv.st = "fallback"
    /\ LET gone == Destroy(X0, Reverse(inv.args))
           made_exc == Sending(gone, "S", Builtin, FALSE)
       IN  Invokes(Destroy(Sending(made_exc, "e", ExcRaw, FALSE), <<ExcRaw>>),
                   [inv EXCEPT !.st = "done", !.res = "TypeError"],
                   Step("handle_call", "TypeError"))
    /\ UNCHANGED <<callrest, made, nops>>

\* the lambda of make_variadic_function: every argument is cooked into vec,
\* which the callable takes; it returns or throws, and vec is destroyed
CallVector ==
    /\ inv.st = "vector"
    /\ \E how \in {"void", "throw"} :
         LET gone == Destroy(X0, inv.args)
         IN  IF how = "void"
               THEN Invokes(Sending(gone, "r", Builtin, FALSE),
                            [inv EXCEPT !.st = "done", !.res = "replied"],
                            Step("handle_call", "replied"))
               ELSE Invokes(Destroy(Sending(gone, "e", ExcRaw, FALSE), <<ExcRaw>>),
                            [inv EXCEPT !.st = "done", !.res = "pyexc"],
                            Step("handle_call", "pyexc"))
    /\ UNCHANGED <<callrest, made, nops>>

\* handle_call returns to wait_for_ret
CallEnd ==
    /\ inv.st = "done"
    /\ Invokes(X0, NoCall, Step("handle_call", "return"))
    /\ UNCHANGED <<callrest, made, nops>>

(***************************************************************************)
(* struct python_iterator and the range-for loop over a remote object.  The *)
(* remote iterator produces the elements 1..n and then raises              *)
(* StopIteration; its call number bad, if there is one, raises another     *)
(* exception instead.  k counts the calls of next, current is the element  *)
(* the iterator stands at (0 is the null object) and seen lists what the   *)
(* loop body was given.                                                    *)
(***************************************************************************)
NoIter == [st |-> "none", n |-> 0, bad |-> 0, k |-> 0, current |-> 0, seen |-> <<>>, x |-> ""]

\* builtins.next on the remote iterator, called for the k-th time
RemoteNext(n, bad, k) ==
    IF k = bad THEN [t |-> "exc", x |-> "pyexc", v |-> 0]
    ELSE IF k <= n THEN [t |-> "ret", x |-> "", v |-> k]
    ELSE [t |-> "exc", x |-> "StopIteration", v |-> 0]

\* object::next: proc->next(*this), a remote exception is thrown on
object_next(n, bad, k) == RemoteNext(n, bad, k)

\* python_iterator::next: StopIteration is caught and gives object(nullptr)
iterator_next(n, bad, k) ==
    LET r == object_next(n, bad, k)
    IN  IF r.t = "exc" /\ r.x = "StopIteration" THEN [t |-> "ret", x |-> "", v |-> 0] ELSE r

\* python_iterator(object &&): current(this->iter_object.next()), which is
\* object::next
construct(n, bad, k) == object_next(n, bad, k)

iterrest == <<impl, err, cpp_to_py, wire, py_to_cpp, child, tblvars, phase, stack, pending,
              ncmd, nops, rstack, robj, rheld, rfns, hobjs, calls, term, ghostvars, garbled,
              proxies, made, xop, excs, inv, qpc, closed, quits, reaped, boot, num, fl, sz,
              snd>>

\* how an iterator goes on with what next has given
Advance(i, r) ==
    IF r.t = "ret" THEN [i EXCEPT !.current = r.v]
    ELSE [i EXCEPT !.st = "thrown", !.x = r.x, !.current = 0]

\* for(auto &elem : obj) starts: obj.begin() constructs the iterator
IterBegin ==
    /\ it.st = "none"
    /\ phase = "alive" /\ impl = "impl" /\ stack = <<>> /\ qpc = NoQuit
    /\ \E n \in 0..MaxLen, bad \in 0..(MaxLen + 1) :
         it' = Advance([NoIter EXCEPT !.st = "iterating", !.n = n, !.bad = bad, !.k = 1],
                       construct(n, bad, 1))
    /\ last' = Step("begin", "ok")
    /\ UNCHANGED iterrest

\* the iterator differs from end(): the body runs with *it, then ++it
IterStep ==
    /\ it.st = "iterating"
    /\ it.current # 0
    /\ it' = Advance([it EXCEPT !.seen = Append(@, it.current), !.k = @ + 1],
                     iterator_next(it.n, it.bad, it.k + 1))
    /\ last' = Step("operator++", "ok")
    /\ UNCHANGED iterrest

\* the iterator equals end(), whose current is null: the loop ends
IterEnd ==
    /\ it.st = "iterating"
    /\ it.current = 0
    /\ it' = [it EXCEPT !.st = "ended"]
    /\ last' = Step("operator==", "end")
    /\ UNCHANGED iterrest

(***************************************************************************)
(* The transport from fork to wait: snaketongs_impl_start, the constructor *)
(* of process_base over it, and snaketongs_impl_quit, one system call at a *)
(* time.  boot.pc is the statement the host is at, boot.fds the pipe ends  *)
(* the host has open, boot.kid the forked child, boot.pipe the byte the    *)
(* child has written and the host has not read, boot.first what the        *)
(* handshake read found, boot.waits the calls of wait_for_python and       *)
(* boot.gone whether waitid has reaped the child.  boot.opened lists the   *)
(* pipe ends that pipe() has made, boot.closes counts for each of them the *)
(* calls of close or fclose on it, boot.mallocs and boot.frees the calls   *)
(* of malloc that succeeded and of free.                                   *)
(***************************************************************************)
Fds == {"cpp_to_py[ReadEnd]", "cpp_to_py[WriteEnd]", "py_to_cpp[ReadEnd]", "py_to_cpp[WriteEnd]"}

\* the ends the parent keeps after the fork
ParentEnds == {"cpp_to_py[WriteEnd]", "py_to_cpp[ReadEnd]"}

Ended == {"exited0", "exited1", "killed"}

Unborn == [pc |-> "start", self |-> FALSE, fds |-> {}, kid |-> "none", pipe |-> "",
           first |-> "", waits |-> 0, gone |-> FALSE, ret |-> "", who |-> "",
           faults |-> {}, res |-> "", opened |-> {}, closes |-> [f \in Fds |-> 0],
           mallocs |-> 0, frees |-> 0]

\* close (or fclose of the stream) on each descriptor of S
close(b, S) ==
    [b EXCEPT !.fds = @ \ S,
              !.closes = [f \in Fds |-> IF f \in S THEN @[f] + 1 ELSE @[f]]]

\* the transport as the constructor leaves it when nothing has failed
Started == [Unborn EXCEPT !.pc = "started", !.self = TRUE, !.fds = ParentEnds,
                          !.kid = "serving", !.first = "+", !.ret = "self",
                          !.opened = Fds, !.mallocs = 1,
                          !.closes = [f \in Fds |-> IF f \in ParentEnds THEN 0 ELSE 1]]

\* the labels error3 .. error0 at the end of snaketongs_impl_start, each
\* falling into the next
RECURSIVE Unwind(_, _)
Unwind(label, b) ==
    CASE label = "error3" ->
           Unwind("error2", close(b, {"py_to_cpp[ReadEnd]", "py_to_cpp[WriteEnd]"}))
      [] label = "error2" ->
           Unwind("error1", close(b, {"cpp_to_py[ReadEnd]", "cpp_to_py[WriteEnd]"}))
      [] label = "error1" -> Unwind("error0", [b EXCEPT !.self = FALSE, !.frees = @ + 1])
      [] OTHER -> [b EXCEPT !.pc = "returned", !.ret = "NULL"]

\* read(py_to_cpp[ReadEnd], &c, 1): -1 on an error, 0 at the end of the
\* stream, 1 with the byte
read(pipe, fault) == IF fault THEN -1 ELSE IF pipe = "" THEN 0 ELSE 1

\* the switch over the result of read: only one byte `+` lets start go on
handshake(n, c) == n = 1 /\ c = "+"

startrest == <<err, cpp_to_py, wire, py_to_cpp, tblvars, stack, pending, ncmd, nops, rstack,
               robj, rheld, rfns, hobjs, calls, term, ghostvars, garbled, proxies, made, xop,
               excs, inv, it, num, fl, sz, snd, qpc, closed, quits, reaped>>

\* malloc, pipe, pipe, fork: any of them can fail, and error0 .. error3 give
\* back what the ones before it took
StartFork ==
    /\ boot.pc = "start"
    /\ \E fail \in {"", "malloc", "pipe cpp_to_py", "pipe py_to_cpp", "fork"} :
         LET a == [boot EXCEPT !.self = fail # "malloc",
                               !.mallocs = IF fail # "malloc" THEN @ + 1 ELSE @]
             made_fds == IF fail \in {"malloc", "pipe cpp_to_py"} THEN {}
                         ELSE IF fail = "pipe py_to_cpp"
                         THEN {"cpp_to_py[ReadEnd]", "cpp_to_py[WriteEnd]"}
                         ELSE Fds
             b == [a EXCEPT !.fds = made_fds, !.opened = made_fds]
         IN  boot' = CASE fail = "malloc" -> Unwind("error0", b)
                       [] fail = "pipe cpp_to_py" -> Unwind("error1", b)
                       [] fail = "pipe py_to_cpp" -> Unwind("error2", b)
                       [] fail = "fork" -> Unwind("error3", b)
                       [] OTHER -> [b EXCEPT !.pc = "close", !.kid = "starting"]
    /\ UNCHANGED <<impl, child, phase, last, startrest>>

\* the parent closes the child's ends of the pipes: both calls of close are
\* made, and a failure of either leads to error4
StartClose ==
    /\ boot.pc = "close"
    /\ \E fail \in BOOLEAN :
         boot' = [close(boot, Fds \ ParentEnds) EXCEPT !.pc = IF fail THEN "error4" ELSE "read"]
    /\ UNCHANGED <<impl, child, phase, last, startrest>>

\* the handshake: read returns when the child has written, when the child has
\* ended without writing, or with an error
StartRead ==
    /\ boot.pc = "read"
    /\ \E fault \in BOOLEAN :
         /\ fault \/ boot.pipe # "" \/ boot.kid \in Ended
         /\ LET n == read(boot.pipe, fault)
            IN  boot' = [boot EXCEPT
                           !.first = IF n = -1 THEN "error" ELSE IF n = 0 THEN "EOF" ELSE boot.pipe,
                           !.pipe = IF n = 1 THEN "" ELSE @,
                           !.pc = IF handshake(n, boot.pipe) THEN "fdopen" ELSE "error4"]
    /\ UNCHANGED <<impl, child, phase, last, startrest>>

\* fdopen of the two ends; start returns self when both succeed
StartFdopen ==
    /\ boot.pc = "fdopen"
    /\ \E fail \in {"", "wb", "rb"} :
         boot' = CASE fail = "wb" -> [boot EXCEPT !.pc = "error4"]
                   [] fail = "rb" -> [boot EXCEPT !.pc = "error5"]
                   [] OTHER -> [boot EXCEPT !.pc = "returned", !.ret = "self"]
    /\ UNCHANGED <<impl, child, phase, last, startrest>>

\* error5 and error4: the parent's ends are closed.  error5 closes them
\* (fclose of the stream over cpp_to_py[WriteEnd], close of py_to_cpp[ReadEnd])
\* and falls into error4, which closes the two descriptors again
StartError ==
    /\ boot.pc \in {"error5", "error4"}
    /\ boot' = [close(boot, ParentEnds) EXCEPT !.pc = IF boot.pc = "error5" THEN "error4"
                                                      ELSE "wait"]
    /\ UNCHANGED <<impl, child, phase, last, startrest>>

\* error4 goes on: wait_for_python, whose waitid returns when the child has
\* ended or with an error, then error1
StartWait ==
    /\ boot.pc = "wait"
    /\ \E w \in {"reaped", "error"} :
         /\ w = "error" \/ boot.kid \in Ended
         /\ boot' = Unwind("error1", [boot EXCEPT !.waits = @ + 1, !.gone = w = "reaped"])
    /\ UNCHANGED <<impl, child, phase, last, startrest>>

\* process_base(): io_error when start has returned NULL
Construct ==
    /\ boot.pc = "returned"
    /\ IF boot.ret = "NULL"
         THEN /\ boot' = [boot EXCEPT !.pc = "thrown"]
              /\ last' = Step("construct", "io_error")
              /\ phase' = "failed"
              /\ UNCHANGED <<impl, child>>
         ELSE /\ boot' = [boot EXCEPT !.pc = "started"]
              /\ last' = Step("construct", "ok")
              /\ phase' = "alive"
              /\ impl' = "impl"
              /\ child' = IF boot.kid = "serving" THEN "running"
                          ELSE IF boot.kid = "exited0" THEN "exited0" ELSE "exited1"
    /\ UNCHANGED startrest

\* process_base::quit, or ~process_base on a bridge that is not terminated
\* (a constructor of process_t that throws after its base is built)
BaseQuit ==
    /\ boot.pc = "started"
    /\ \E who \in {"quit", "~process_base"} :
         /\ boot' = [boot EXCEPT !.pc = "fclose cpp_to_py", !.who = who]
         /\ impl' = IF who = "quit" THEN quit(impl) ELSE impl
    /\ UNCHANGED <<child, phase, last, startrest>>

\* snaketongs_impl_quit: the two fclose calls, each of which releases its
\* descriptor whatever it returns
QuitFclose ==
    /\ boot.pc \in {"fclose cpp_to_py", "fclose py_to_cpp"}
    /\ \E fail \in BOOLEAN :
         boot' = IF boot.pc = "fclose cpp_to_py"
                   THEN [close(boot, {"cpp_to_py[WriteEnd]"}) EXCEPT
                                     !.faults = IF fail THEN @ \cup {"fclose cpp_to_py"} ELSE @,
                                     !.pc = "fclose py_to_cpp"]
                   ELSE [close(boot, {"py_to_cpp[ReadEnd]"}) EXCEPT
                                     !.faults = IF fail THEN @ \cup {"fclose py_to_cpp"} ELSE @,
                                     !.pc = "waitid"]
    /\ UNCHANGED <<impl, child, phase, last, startrest>>

\* snaketongs_impl_quit goes on: wait_for_python, free, return ok; quit()
\* throws io_error when it was not ok
QuitWaitid ==
    /\ boot.pc = "waitid"
    /\ \E w \in {"reaped", "error"} :
         /\ w = "error" \/ boot.kid \in Ended
         /\ LET ok == snaketongs_impl_quit(boot.faults = {}, IF w = "error" THEN w ELSE boot.kid)
            IN  /\ boot' = [boot EXCEPT !.waits = @ + 1, !.gone = w = "reaped", !.self = FALSE,
                                        !.frees = @ + 1,
                                        !.faults = IF w = "error" THEN @ \cup {"waitid"} ELSE @,
                                        !.res = IF ok THEN "true" ELSE "false",
                                        !.pc = "quit returned"]
                /\ last' = Step(boot.who, IF boot.who = "quit" /\ ~ok THEN "io_error" ELSE "ok")
    /\ UNCHANGED <<impl, child, phase, startrest>>

\* the child greets the host with `+`, or writes something else first
KidWrite ==
    /\ boot.kid = "starting"
    /\ \E b \in {"+", "x"} : boot' = [boot EXCEPT !.pipe = b, !.kid = "serving"]
    /\ UNCHANGED <<impl, child, phase, last, startrest>>

\* the child ends: exec fails (exit 127), the interpreter exits, or a signal
\* kills it
KidExit ==
    /\ boot.kid \in {"starting", "serving"}
    /\ \E c \in Ended : boot' = [boot EXCEPT !.kid = c]
    /\ UNCHANGED <<impl, child, phase, last, startrest>>

(***************************************************************************)
(* Integers on the wire: pack_int, unpack_int and the header send_cmd      *)
(* writes.  int_t is the signed type of the width of std::size_t; the      *)
(* conversions between the two wrap modulo 2^(8 * int_size).               *)
(***************************************************************************)
Word == 2 ^ (8 * int_size)

\* (std::size_t) v
to_size_t(v) == v % Word

\* (int_t) u
to_int_t(u) == IF u >= Word \div 2 THEN u - Word ELSE u

\* the assignment to an unsigned char
to_uchar(u) == u % 256

\* a | b
RECURSIVE BitOr(_, _)
BitOr(a, b) ==
    IF a = 0 THEN b
    ELSE IF b = 0 THEN a
    ELSE (IF a % 2 = 1 \/ b % 2 = 1 THEN 1 ELSE 0) + 2 * BitOr(a \div 2, b \div 2)

\* a pack_int that writes the most significant byte first
pack_int_big_endian(v) ==
    [i \in 1..int_size |-> to_uchar(to_size_t(v) \div 2 ^ (8 * (int_size - i)))]

\* pack_int: c[i] = (std::size_t) v >> 8*i (c[i] is the element i + 1 here)
pack_int(v) == [i \in 1..int_size |-> to_uchar(to_size_t(v) \div 2 ^ (8 * (i - 1)))]

\* unpack_int: v |= (std::size_t) c[i] << 8*i, from i = 0 on
RECURSIVE unpack_loop(_, _, _)
unpack_loop(c, i, v) ==
    IF i >= int_size THEN v
    ELSE unpack_loop(c, i + 1, BitOr(v, to_size_t(c[i + 1] * 2 ^ (8 * i))))

unpack_int(c) == to_int_t(unpack_loop(c, 0, 0))

\* enum class cmd
Cmds == {"I", "B", "S", "T", "G", "R", "C", "X", "L", "D", "i", "b", "~", "r", "e"}

\* the bytes send_cmd(c, i) hands to send: data[0] = c, pack_int(i, data + 1)
header(c, i) == <<c>> \o pack_int(i)

\* the integers tried: every word whose bytes are among these
ByteSamples == {0, 1, 127, 128, 255}

RECURSIVE Weigh(_)
Weigh(c) == IF c = <<>> THEN 0 ELSE Head(c) + 256 * Weigh(Tail(c))

Ints == {to_int_t(Weigh(c)) : c \in [1..int_size -> ByteSamples]}

NoNum == [pc |-> "idle", v |-> 0, data |-> <<>>, back |-> 0]

packrest == <<impl, err, cpp_to_py, wire, py_to_cpp, child, py_to_cpp_ptrs,
              py_to_cpp_ptrs_free_list, phase, stack, pending, ncmd, rstack, robj, rheld, rfns,
              hobjs, calls, last, term, match, rethrown, garbled, nops, issued, reg, proxies,
              made, xop, excs, inv, it, boot, qpc, closed, quits, reaped, fl, sz, snd>>

\* send_int: the integer is packed into int_size bytes
PackInt ==
    /\ num.pc = "idle"
    /\ \E v \in Ints : num' = [NoNum EXCEPT !.pc = "packed", !.v = v, !.data = pack_int(v)]
    /\ UNCHANGED packrest

\* recv_int on the bytes just packed
UnpackInt ==
    /\ num.pc = "packed"
    /\ num' = [num EXCEPT !.pc = "unpacked", !.back = unpack_int(num.data)]
    /\ UNCHANGED packrest

\* send_cmd: any command, any integer
SendCmd ==
    /\ num.pc = "idle"
    /\ \E c \in Cmds, v \in Ints :
         num' = [NoNum EXCEPT !.pc = "sent", !.v = v, !.data = header(c, v)]
    /\ UNCHANGED packrest

\* the header read back as wait_for_ret reads one: unpack_int(data + 1)
RecvHeader ==
    /\ num.pc = "sent"
    /\ num' = [num EXCEPT !.pc = "received", !.back = unpack_int(Tail(num.data))]
    /\ UNCHANGED packrest

(***************************************************************************)
(* Floating point values.  A value is its bit pattern: sign s, exponent    *)
(* field e and fraction m.  The host writes a double as text with          *)
(* snprintf("%la"), the interpreter reads it with float.fromhex and writes *)
(* it with float.hex, the host reads that with sscanf("%la").  A text is   *)
(* kept as its parts: the sign, "nan", "inf" or "hex", the digit before    *)
(* the point, the hexadecimal digits after it, and the binary exponent.    *)
(***************************************************************************)
Format(eb, mb) == [eb |-> eb, mb |-> mb]

binary64 == Format(ExpBits, 4 * HexDigits)

\* float: a narrower exponent and fraction
binary32 == Format(ExpBits - 1, 4 * HexDigits - 2)

Bias(f) == 2 ^ (f.eb - 1) - 1

\* the exponent field of the infinities and the NaNs
EMax(f) == 2 ^ f.eb - 1

\* the exponent of the subnormal values and of the smallest normal ones
EMin(f) == 1 - Bias(f)

Bits(s, e, m) == [s |-> s, e |-> e, m |-> m]

Values(f) == [s : {0, 1}, e : 0..EMax(f), m : 0..(2 ^ f.mb - 1)]

isnan(f, x) == x.e = EMax(f) /\ x.m # 0

isinf(f, x) == x.e = EMax(f) /\ x.m = 0

\* the NAN macro: the positive quiet NaN without payload
NAN(f) == Bits(0, EMax(f), 2 ^ (f.mb - 1))

INFINITY(f, s) == Bits(s, EMax(f), 0)

RECURSIVE Log2(_)
Log2(n) == IF n < 2 THEN 0 ELSE 1 + Log2(n \div 2)

\* a / b rounded to the nearest integer, ties to even
RoundHalfEven(a, b) ==
    LET q == a \div b
        r == a % b
    IN  IF 2 * r > b \/ (2 * r = b /\ q % 2 = 1) THEN q + 1 ELSE q

\* the value of format f nearest to (-1)^s * n * 2^q
FromValue(f, s, n, q) ==
    IF n = 0 THEN Bits(s, 0, 0)
    ELSE LET ex == Log2(n) + q
         IN  IF ex > Bias(f) THEN INFINITY(f, s)
             ELSE LET e0 == IF ex >= EMin(f) THEN ex ELSE EMin(f)
                      sh == q - e0 + f.mb
                      sig == IF sh >= 0 THEN n * 2 ^ sh ELSE RoundHalfEven(n, 2 ^ (-sh))
                      bits == IF ex >= EMin(f)
                                THEN (e0 + Bias(f)) * 2 ^ f.mb + (sig - 2 ^ f.mb)
                                ELSE sig
                  IN  Bits(s, bits \div 2 ^ f.mb, bits % 2 ^ f.mb)

\* the significand and the exponent of a finite value x: x = n * 2^q
Significand(f, x) == IF x.e = 0 THEN x.m ELSE 2 ^ f.mb + x.m

Exponent(f, x) == (IF x.e = 0 THEN EMin(f) ELSE x.e - Bias(f)) - f.mb

\* (double) value, which is exact
widen(x) ==
    IF isnan(binary32, x)
      THEN Bits(x.s, EMax(binary64), x.m * 2 ^ (binary64.mb - binary32.mb))
    ELSE IF isinf(binary32, x) THEN INFINITY(binary64, x.s)
    ELSE FromValue(binary64, x.s, Significand(binary32, x), Exponent(binary32, x))

\* (float) d: a NaN keeps the top of its payload and is made quiet
narrow(d) ==
    IF isnan(binary64, d)
      THEN LET m == d.m \div 2 ^ (binary64.mb - binary32.mb)
               quiet == 2 ^ (binary32.mb - 1)
           IN  Bits(d.s, EMax(binary32), IF (m \div quiet) % 2 = 1 THEN m ELSE m + quiet)
    ELSE IF isinf(binary64, d) THEN INFINITY(binary32, d.s)
    ELSE FromValue(binary32, d.s, Significand(binary64, d), Exponent(binary64, d))

Text(neg, kind, lead, frac, exp) ==
    [neg |-> neg, kind |-> kind, lead |-> lead, frac |-> frac, exp |-> exp]

\* the k hexadecimal digits of m, the most significant first
Digits(m, k) == [i \in 1..k |-> (m \div 16 ^ (k - i)) % 16]

RECURSIVE Strip(_)
Strip(d) ==
    IF d = <<>> THEN d
    ELSE IF d[Len(d)] = 0 THEN Strip(SubSeq(d, 1, Len(d) - 1))
    ELSE d

RECURSIVE Weigh16(_)
Weigh16(d) ==
    IF d = <<>> THEN 0 ELSE 16 * Weigh16(SubSeq(d, 1, Len(d) - 1)) + d[Len(d)]

RECURSIVE DecLen(_)
DecLen(n) == IF n < 10 THEN 1 ELSE 1 + DecLen(n \div 10)

\* the number of characters of a text
strlen(t) ==
    (IF t.neg THEN 1 ELSE 0)
    + (IF t.kind = "hex"
         THEN 3 + (IF t.frac = <<>> THEN 0 ELSE 1 + Len(t.frac)) + 2
              + DecLen(IF t.exp < 0 THEN -t.exp ELSE t.exp)
         ELSE 3)

\* sizeof str in into_object: sizeof value * 2 + sizeof "+0x0.0p+0"
sizeof_str == 2 * ((1 + binary64.eb + binary64.mb + 7) \div 8) + 10

\* snprintf("%la"): nan or -nan, inf or -inf, 0x0p+0, and else the digits
\* of the fraction without its trailing zeros
printf_la(x) ==
    LET f == binary64
    IN  IF isnan(f, x) THEN Text(x.s = 1, "nan", 0, <<>>, 0)
        ELSE IF isinf(f, x) THEN Text(x.s = 1, "inf", 0, <<>>, 0)
        ELSE IF x.e = 0 /\ x.m = 0 THEN Text(x.s = 1, "hex", 0, <<>>, 0)
        ELSE IF x.e = 0 THEN Text(x.s = 1, "hex", 0, Strip(Digits(x.m, HexDigits)), EMin(f))
        ELSE Text(x.s = 1, "hex", 1, Strip(Digits(x.m, HexDigits)), x.e - Bias(f))

\* the value a hexadecimal text stands for, in format f
Parse(f, t) ==
    FromValue(f, IF t.neg THEN 1 ELSE 0, t.lead * 16 ^ Len(t.frac) + Weigh16(t.frac),
              t.exp - 4 * Len(t.frac))

\* float.fromhex: nan and inf with their sign, else the value written
fromhex(t) ==
    LET f == binary64
    IN  IF t.kind = "nan" THEN [NAN(f) EXCEPT !.s = IF t.neg THEN 1 ELSE 0]
        ELSE IF t.kind = "inf" THEN INFINITY(f, IF t.neg THEN 1 ELSE 0)
        ELSE Parse(f, t)

\* float.hex: nan without a sign, inf or -inf, 0x0.0p+0, and else every digit
\* of the fraction
hex(x) ==
    LET f == binary64
    IN  IF isnan(f, x) THEN Text(FALSE, "nan", 0, <<>>, 0)
        ELSE IF isinf(f, x) THEN Text(x.s = 1, "inf", 0, <<>>, 0)
        ELSE IF x.e = 0 /\ x.m = 0 THEN Text(x.s = 1, "hex", 0, <<0>>, 0)
        ELSE IF x.e = 0 THEN Text(x.s = 1, "hex", 0, Digits(x.m, HexDigits), EMin(f))
        ELSE Text(x.s = 1, "hex", 1, Digits(x.m, HexDigits), x.e - Bias(f))

\* a sscanf that does not look at the sign
sscanf_la_unsigned(t) ==
    LET f == binary64
    IN  IF t.kind = "nan" THEN NAN(f)
        ELSE IF t.kind = "inf" THEN INFINITY(f, 0)
        ELSE Parse(f, [t EXCEPT !.neg = FALSE])

\* sscanf("%la"): the quiet NaN with the sign written, an infinity, or the
\* value written
sscanf_la(t) ==
    LET f == binary64
    IN  IF t.kind = "nan" THEN [NAN(f) EXCEPT !.s = IF t.neg THEN 1 ELSE 0]
        ELSE IF t.kind = "inf" THEN INFINITY(f, IF t.neg THEN 1 ELSE 0)
        ELSE Parse(f, t)

NoFloat == [pc |-> "idle", ty |-> "", x |-> Bits(0, 0, 0), d |-> Bits(0, 0, 0),
            str |-> Text(FALSE, "", 0, <<>>, 0), py |-> Bits(0, 0, 0),
            back |-> Bits(0, 0, 0)]

floatrest == <<impl, err, cpp_to_py, wire, py_to_cpp, child, py_to_cpp_ptrs,
               py_to_cpp_ptrs_free_list, phase, stack, pending, ncmd, rstack, robj, rheld,
               rfns, hobjs, calls, last, term, match, rethrown, garbled, nops, issued, reg,
               proxies, made, xop, excs, inv, it, boot, num, qpc, closed, quits, reaped, sz,
               snd>>

\* into_object(value) for a double, or for a float, which is made a double
FloatBegin ==
    /\ fl.pc = "idle"
    /\ \/ \E x \in Values(binary64) :
            fl' = [NoFloat EXCEPT !.pc = "snprintf", !.ty = "double", !.x = x, !.d = x]
       \/ \E x \in Values(binary32) :
            fl' = [NoFloat EXCEPT !.pc = "snprintf", !.ty = "float", !.x = x, !.d = widen(x)]
    /\ UNCHANGED floatrest

\* snprintf into str; std::terminate when the text does not fit
FloatFormat ==
    /\ fl.pc = "snprintf"
    /\ LET t == printf_la(fl.d)
       IN  fl' = IF strlen(t) >= sizeof_str
                   THEN [fl EXCEPT !.pc = "terminate"]
                   ELSE [fl EXCEPT !.pc = "fromhex", !.str = t]
    /\ UNCHANGED floatrest

\* float_.call("fromhex", str): the interpreter makes the float
FloatFromhex ==
    /\ fl.pc = "fromhex"
    /\ fl' = [fl EXCEPT !.pc = "hex", !.py = fromhex(fl.str)]
    /\ UNCHANGED floatrest

\* operator double: float_.call("hex", *this) as a string
FloatHex ==
    /\ fl.pc = "hex"
    /\ fl' = [fl EXCEPT !.pc = "sscanf", !.str = hex(fl.py)]
    /\ UNCHANGED floatrest

\* sscanf of the string; operator float narrows what operator double returns
FloatScan ==
    /\ fl.pc = "sscanf"
    /\ LET d == sscanf_la(fl.str)
       IN  fl' = [fl EXCEPT !.pc = "done", !.d = d,
                            !.back = IF fl.ty = "float" THEN narrow(d) ELSE d]
    /\ UNCHANGED floatrest

(***************************************************************************)
(* Frames that carry a size: the number of arguments of an inbound `c`     *)
(* frame, read by handle_call, and the length in the reply to `b`, read by *)
(* cmd_get_bytes.  The integer is any the wire can carry.                  *)
(***************************************************************************)
\* std::make_unique_for_overwrite<raw_object[]>(num_args): the count becomes
\* a std::size_t, and new[] throws when the array would not fit a size_t
\* (sizeof(raw_object) is int_size)
make_unique_for_overwrite(num_args) ==
    LET n == to_size_t(num_args)
    IN  IF n * int_size >= Word
          THEN [thrown |-> "std::bad_array_new_length", size |-> 0]
          ELSE [thrown |-> "", size |-> n]

\* Container(size, Exprs...), a std::vector<char> or a std::string: the size
\* becomes a std::size_t, and one above max_size() is a std::length_error
Container(size) ==
    LET n == to_size_t(size)
    IN  IF n > Word \div 2 - 1
          THEN [thrown |-> "std::length_error", size |-> 0]
          ELSE [thrown |-> "", size |-> n]

Sizes == {v \in Ints : v < 0} \cup 0..MaxLen

NoSize == [pc |-> "idle", op |-> "", kind |-> "", n |-> 0, thrown |-> "", alloc |-> 0,
           reads |-> 0]

sizerest == <<impl, err, cpp_to_py, wire, py_to_cpp, child, py_to_cpp_ptrs,
              py_to_cpp_ptrs_free_list, phase, stack, pending, ncmd, rstack, robj, rheld, rfns,
              hobjs, calls, last, term, match, rethrown, garbled, nops, issued, reg, proxies,
              made, xop, excs, inv, it, boot, num, fl, qpc, closed, quits, reaped, snd>>

\* wait_for_ret has read the header of a `c` frame and handle_call its
\* num_args, or cmd_get_bytes has got the size from wait_for_ret
SizeFrame ==
    /\ sz.pc = "idle"
    /\ \E n \in Sizes, kind \in {"raw_object[]", "std::vector<char>", "std::string"} :
         sz' = [NoSize EXCEPT !.pc = "alloc", !.n = n, !.kind = kind,
                              !.op = IF kind = "raw_object[]" THEN "c" ELSE "b"]
    /\ UNCHANGED sizerest

\* the array or the container is made; what it throws leaves handle_call or
\* cmd_get_bytes, and wait_for_ret above it, as it is
SizeAlloc ==
    /\ sz.pc = "alloc"
    /\ LET a == IF sz.op = "c" THEN make_unique_for_overwrite(sz.n) ELSE Container(sz.n)
       IN  sz' = IF a.thrown # ""
                   THEN [sz EXCEPT !.pc = "done", !.thrown = a.thrown]
                   ELSE [sz EXCEPT !.pc = "read", !.alloc = a.size]
    /\ UNCHANGED sizerest

\* the payload is read: recv_int for each argument while i < num_args, or
\* one recv of size bytes; recv throws io_error when the transport fails
SizeRead ==
    /\ sz.pc = "read"
    /\ \E fault \in BOOLEAN :
         sz' = IF sz.reads >= sz.n
                 THEN [sz EXCEPT !.pc = "done"]
               ELSE IF fault
                 THEN [sz EXCEPT !.pc = "done", !.thrown = "io_error"]
               ELSE [sz EXCEPT !.reads = IF sz.op = "c" THEN @ + 1 ELSE sz.n]
    /\ UNCHANGED sizerest

(***************************************************************************)
(* The table by itself: cmd_make_remote and handle_del in any order, with  *)
(* an interpreter that answers at once.  The interpreter drops a wrapper   *)
(* it holds; one that does not keep to the protocol drops a cell a second  *)
(* time.                                                                   *)
(***************************************************************************)
tablerest == <<impl, wire, py_to_cpp, child, phase, stack, pending, ncmd, rstack, robj, rheld,
               rfns, hobjs, term, match, rethrown, garbled, nops, proxies, made, xop, excs,
               inv, it, boot, num, fl, sz, snd, qpc, closed, quits, reaped>>

\* the table is at rest between two operations of the main program
AtTable ==
    /\ AtMain
    /\ impl = "impl"
    /\ child = "running"

\* cmd_make_remote of a functor or an exception_ptr: the cell is taken, R is
\* sent and wait_for_object flushes and reads the reply, which the interpreter
\* has sent at once
MakeRemote ==
    /\ AtTable
    /\ any(py_to_cpp_ptrs_free_list) \/ Len(py_to_cpp_ptrs) < MaxCells
    /\ \E cell \in {Slot("fn", NoNext, "")} \cup {Slot("exc", NoNext, x) : x \in NativeExcs} :
         LET r == Register(py_to_cpp_ptrs, py_to_cpp_ptrs_free_list, cell)
             x == recv_int(Request(X0, "R", r.idx, <<>>))
         IN  /\ Registers(r)
             /\ IF r.ok
                  THEN /\ err' = x.err
                       /\ cpp_to_py' = x.buf
                       /\ calls' = x.log
                       /\ last' = Step("cmd_make_remote", "ok")
                  ELSE /\ calls' = <<>>
                       /\ last' = Step("cmd_make_remote", "bad_variant_access")
                       /\ UNCHANGED <<err, cpp_to_py>>
    /\ UNCHANGED tablerest

\* wait_for_ret has read the frame `~` ptr_idx: handle_del
DelFrame(ptr_idx) ==
    LET del == handle_del(py_to_cpp_ptrs, py_to_cpp_ptrs_free_list, ptr_idx)
    IN  /\ py_to_cpp_ptrs' = del.ptrs
        /\ py_to_cpp_ptrs_free_list' = del.head
        /\ calls' = recv_int(T0).log
        /\ last' = Step("handle_del", "ok")
        /\ UNCHANGED <<issued, reg, err, cpp_to_py, tablerest>>

\* the interpreter has dropped its wrapper of a function or an exception
HandleDel ==
    /\ AtTable
    /\ \E i \in 0..(Len(py_to_cpp_ptrs) - 1) :
         /\ py_to_cpp_ptrs[i + 1].tag # "free"
         /\ DelFrame(i)

\* the interpreter names a cell that is free already
HandleDelAgain ==
    /\ AtTable
    /\ \E i \in 0..(Len(py_to_cpp_ptrs) - 1) :
         /\ py_to_cpp_ptrs[i + 1].tag = "free"
         /\ DelFrame(i)

(***************************************************************************)
(* The senders send by send.  A command is a header (send_cmd) and then    *)
(* one send_object for each object of its payload; a frame of the model is *)
(* here one such send, "." being an object of the payload of the command   *)
(* id.  snd.stk is the host's stack: the commands under way, each sending  *)
(* or waiting for its reply, and the callables handle_call runs for the    *)
(* command that waits below them.  snd.own are the proxies the user code   *)
(* holds, snd.dead the proxies destroyed so far, in the order of their     *)
(* destruction, snd.ops and snd.called the commands and the calls so far.  *)
(* The interpreter answers at once: a reply, or a call.                    *)
(***************************************************************************)
NoSend == [stk |-> <<>>, own |-> {}, dead |-> <<>>, n |-> 0, ops |-> 0, next |-> 1,
           called |-> 0]

\* a command under way: left is what it has still to send, temps are the
\* temporaries of the expression that issued it
Cmd(st, id, left, temps) == [k |-> "cmd", st |-> st, id |-> id, left |-> left, temps |-> temps]

\* a callable that handle_call runs
InCall == [k |-> "call", st |-> "", id |-> 0, left |-> <<>>, temps |-> <<>>]

\* user code that runs at any time, also between two sends of a command
UserRunsAnytime(stk) == TRUE

\* user code runs in the main program or in a callable: cmd_call and the other
\* senders call nothing but send between the header and the end of the payload
UserRuns(stk) == IF stk = <<>> THEN TRUE ELSE Top(stk).k = "call"

\* one send, on the transport with the pipe
Put(x, fr, fault) ==
    LET s == send(x, fr, fault)
    IN  [err |-> s.err, buf |-> s.buf, log |-> s.log, ok |-> s.ok, wire |-> x.wire]

\* flush, as wait_for_ret calls it before it reads
Flushed(x) ==
    LET f == snaketongs_impl_flush(x.err, x.buf, x.wire, child)
    IN  [err |-> f.err, buf |-> f.buf, ok |-> x.ok /\ f.ok, wire |-> f.wire,
         log |-> Append(x.log, Call("flush", f.ok, f.io, Len(x.buf)))]

\* into_object of k values: cmd_make_int for each, the commands id + 1 ..
\* id + k, each sent, flushed and answered
RECURSIVE MakeInts(_, _, _, _)
MakeInts(x, k, id, fault) ==
    IF k = 0 THEN x
    ELSE Flushed(Put(MakeInts(x, k - 1, id, fault), Frame("I", 7, <<>>, id + k),
                     fault /\ k = 1))

\* the values among the first i arguments
ValuesAmong(args, i) == Cardinality({j \in 1..i : args[j] = "value"})

\* the temporaries of every command under way, in the order in which the
\* stack is unwound
RECURSIVE Unwound(_)
Unwound(stk) ==
    IF stk = <<>> THEN <<>> ELSE Reverse(Top(stk).temps) \o Unwound(Pop(stk))

sendrest == <<impl, py_to_cpp, py_to_cpp_ptrs, py_to_cpp_ptrs_free_list, phase, stack, pending,
              ncmd, rstack, robj, rheld, rfns, hobjs, term, match, rethrown, garbled, nops,
              issued, reg, proxies, made, xop, excs, inv, it, boot, num, fl, sz, qpc, closed,
              quits, reaped>>

\* what a step of a sender sets
Writes(x, s, lst) ==
    /\ err' = x.err
    /\ cpp_to_py' = x.buf
    /\ wire' = x.wire
    /\ calls' = x.log
    /\ snd' = s
    /\ last' = lst
    /\ UNCHANGED <<child, sendrest>>

\* an io_error leaves every command and callable under way: the temporaries
\* are destroyed, and their `~` is refused
Unwinds(x, s, op) ==
    Writes(x, [s EXCEPT !.stk = <<>>, !.dead = @ \o Unwound(s.stk)], Step(op, "io_error"))

\* object::operator(): the arguments are coerced from left to right, a value
\* by a command of its own, and cmd_call sends its header
SendBegin ==
    /\ phase = "alive" /\ impl = "impl" /\ qpc = NoQuit
    /\ UserRuns(snd.stk)
    /\ snd.ops < MaxCalls
    /\ \E n \in 0..MaxArgs, fault \in SendFaults(child) :
         \E args \in [1..n -> {"own", "value"}] :
           LET vals == ValuesAmong(args, n)
               temps == [i \in 1..vals |-> snd.next + i - 1]
               raws == [i \in 1..n |-> IF args[i] = "value" THEN temps[ValuesAmong(args, i)]
                                       ELSE Builtin]
               id == snd.n + vals + 1
               x == Put(MakeInts(X0, vals, snd.n, fault),
                        Frame("C", n, <<>>, id), fault /\ vals = 0)
               s == [snd EXCEPT !.ops = @ + 1, !.n = id, !.next = @ + vals]
               c == Cmd("sending", id, <<Builtin>> \o raws, temps)
           IN  IF x.ok
                 THEN Writes(x, [s EXCEPT !.stk = Append(@, c)], Step("cmd_call", "header"))
                 ELSE Unwinds(x, [s EXCEPT !.stk = Append(@, c)], "cmd_call")

\* cmd_call goes on: send_object of the next object of the payload
SendObject ==
    /\ snd.stk # <<>> /\ Top(snd.stk).k = "cmd" /\ Top(snd.stk).st = "sending"
    /\ Top(snd.stk).left # <<>>
    /\ \E fault \in SendFaults(child) :
         LET c == Top(snd.stk)
             x == Put(X0, Frame(".", Head(c.left), <<>>, c.id), fault)
         IN  IF x.ok
               THEN Writes(x, [snd EXCEPT !.stk[Len(snd.stk)].left = Tail(@)],
                           Step("cmd_call", "object"))
               ELSE Unwinds(x, snd, "cmd_call")

\* the payload is sent: wait_for_object flushes and waits
SendWait ==
    /\ snd.stk # <<>> /\ Top(snd.stk).k = "cmd" /\ Top(snd.stk).st = "sending"
    /\ Top(snd.stk).left = <<>>
    /\ LET x == Flushed(X0)
       IN  IF x.ok
             THEN Writes(x, [snd EXCEPT !.stk[Len(snd.stk)].st = "waiting"],
                         Step("wait_for_ret", "flushed"))
             ELSE Unwinds(x, snd, "wait_for_ret")

\* the reply is read: the command returns a new proxy, which the user code
\* keeps, and the temporaries of the expression are destroyed, the latest first
SendReturn ==
    /\ snd.stk # <<>> /\ Top(snd.stk).k = "cmd" /\ Top(snd.stk).st = "waiting"
    /\ LET c == Top(snd.stk)
           r == snaketongs_impl_recv(err, IF ChildGone(child) THEN <<>> ELSE <<NoFrame>>)
           x == [X0 EXCEPT !.err = r.err, !.ok = r.ok,
                           !.log = <<Call("recv", r.ok, r.io, Len(cpp_to_py))>>]
       IN  IF r.ok
             THEN Writes(Destroy(x, c.temps),
                         [snd EXCEPT !.stk = Pop(@), !.own = @ \cup {snd.next},
                                     !.next = @ + 1, !.dead = @ \o Reverse(c.temps)],
                         Step("wait_for_ret", "return"))
             ELSE Unwinds(x, snd, "wait_for_ret")

\* in place of the reply a `c` frame is read: handle_call runs the callable
SendCalled ==
    /\ snd.stk # <<>> /\ Top(snd.stk).k = "cmd" /\ Top(snd.stk).st = "waiting"
    /\ child = "running"
    /\ Cardinality({i \in 1..Len(snd.stk) : snd.stk[i].k = "call"}) < MaxDepth
    /\ snd.called < MaxCalls
    /\ Writes(recv_args(X0, 0), [snd EXCEPT !.stk = Append(@, InCall), !.called = @ + 1],
              Step("wait_for_ret", "call"))

\* the callable returns None or a proxy it holds, or throws one: cmd_ret or
\* cmd_exc, and then the proxy is destroyed
SendReply ==
    /\ snd.stk # <<>> /\ Top(snd.stk).k = "call"
    /\ \E op \in {"r", "e"}, raw \in snd.own \cup {Builtin}, fault \in SendFaults(child) :
         /\ op = "e" => raw # Builtin
         /\ LET x == Put(X0, Frame(op, raw, <<>>, 0), fault)
                gone == IF raw = Builtin THEN <<>> ELSE <<raw>>
                s == [snd EXCEPT !.own = @ \ {raw}, !.dead = @ \o gone]
            IN  IF x.ok
                  THEN Writes(Destroy(x, gone), [s EXCEPT !.stk = Pop(@)],
                              Step("handle_call", "replied"))
                  ELSE Unwinds(Destroy(x, gone), [s EXCEPT !.stk = Pop(@)], "handle_call")

\* a proxy of the user code is destroyed
SendDrop ==
    /\ phase = "alive" /\ impl = "impl" /\ qpc = NoQuit
    /\ UserRuns(snd.stk)
    /\ \E raw \in snd.own :
         Writes(Destroy(X0, <<raw>>), [snd EXCEPT !.own = @ \ {raw}, !.dead = Append(@, raw)],
                Step("~object", "ok"))

(***************************************************************************)
(* The bridge after construction, and its steps.                           *)
(***************************************************************************)
Fresh ==
    /\ err = FALSE
    /\ cpp_to_py = <<>>
    /\ wire = <<>>
    /\ py_to_cpp = <<>>
    /\ py_to_cpp_ptrs = <<>>
    /\ py_to_cpp_ptrs_free_list = NoNext
    /\ stack = <<>>
    /\ pending = None
    /\ ncmd = 0
    /\ rstack = <<>>
    /\ robj = <<[RObj("type", NoNext, "") EXCEPT !.live = TRUE]>>
    /\ rheld = {}
    /\ rfns = {}
    /\ hobjs = {}
    /\ calls = <<>>
    /\ term = "none"
    /\ match = [by |-> 0, for |-> 0]
    /\ rethrown = [x |-> "", orig |-> ""]
    /\ garbled = FALSE
    /\ nops = 0
    /\ issued = {}
    /\ reg = [idx |-> NoNext, was |-> "wild"]
    /\ proxies = [v \in Vars |-> Absent]
    /\ made = 0
    /\ xop = Idle
    /\ excs = [v \in Vars |-> NoExc]
    /\ inv = NoCall
    /\ it = NoIter
    /\ num = NoNum
    /\ fl = NoFloat
    /\ sz = NoSize
    /\ snd = NoSend
    /\ qpc = NoQuit
    /\ closed = FALSE
    /\ quits = 0
    /\ reaped = FALSE

Init ==
    /\ Fresh
    /\ impl = "impl"
    /\ child = "running"
    /\ phase = "alive"
    /\ boot = Started
    /\ last = Step("construct", "ok")

Next ==
    \/ UserCommand
    \/ UserGetBytes
    \/ GetBytesStep
    \/ FallbackCall
    \/ UserDrop
    \/ UserMakeFunction
    \/ MakeFunctionStep
    \/ MainTakes
    \/ CallableReturn
    \/ CallableThrow
    \/ CallableThrowObject
    \/ CallableTakes
    \/ CatchStep
    \/ WaitFlush
    \/ WaitRecv
    \/ RethrowStep
    \/ Terminate
    \/ Destructor
    \/ ConstructorThrows
    \/ QuitClear
    \/ QuitClose
    \/ QuitWait
    \/ RemoteEof
    \/ RemoteRead
    \/ RemoteAnswer
    \/ RemoteReturn
    \/ RemoteRaise
    \/ RemoteCall
    \/ RemoteGarbage
    \/ ChildExit

Spec == Init /\ [][Next]_vars

\* the proxies alone: the user code creates, moves, assigns, swaps and destroys
\* them, the child may die, and the bridge may be terminated
NextProxy ==
    \/ ProxyCook
    \/ ProxyNull
    \/ ProxyMove
    \/ ProxyMoveAssign
    \/ ProxyAssignNull
    \/ ProxySwap
    \/ ProxyDestroy
    \/ ChildExit
    \/ Terminate
    \/ QuitClear
    \/ QuitClose
    \/ QuitWait
    \/ RemoteEof

SpecProxy == Init /\ [][NextProxy]_vars

\* the exception proxies alone: the user code catches, moves, duplicates,
\* reads and destroys them while the bridge runs, is terminated and is destroyed
NextExc ==
    \/ ExcCatch
    \/ ExcMove
    \/ ExcWhat
    \/ ExcDup
    \/ ExcDestroy
    \/ ChildExit
    \/ Terminate
    \/ Destructor
    \/ QuitClear
    \/ QuitClose
    \/ QuitWait
    \/ RemoteEof

SpecExc == Init /\ [][NextExc]_vars

\* the bridge in its running state with an interpreter that follows the
\* protocol and stays alive: no frame outside the protocol, no exit, and no
\* terminate() or ~process_t
NextLive ==
    \/ UserCommand
    \/ UserGetBytes
    \/ GetBytesStep
    \/ FallbackCall
    \/ UserDrop
    \/ UserMakeFunction
    \/ MakeFunctionStep
    \/ MainTakes
    \/ CallableReturn
    \/ CallableThrow
    \/ CallableThrowObject
    \/ CallableTakes
    \/ CatchStep
    \/ WaitFlush
    \/ WaitRecv
    \/ RethrowStep
    \/ RemoteRead
    \/ RemoteAnswer
    \/ RemoteReturn
    \/ RemoteRaise
    \/ RemoteCall

\* the steps the host thread takes by itself once an operation has started:
\* the dispatcher and the handlers go on, and a callable that runs ends
HostStep ==
    \/ GetBytesStep
    \/ FallbackCall
    \/ MakeFunctionStep
    \/ CallableReturn
    \/ CallableTakes
    \/ CatchStep
    \/ WaitFlush
    \/ WaitRecv
    \/ RethrowStep

\* the steps of the interpreter, which is one thread that reads a frame when
\* it waits for one and else ends what it runs by a reply or a call
RemoteStep ==
    \/ RemoteRead
    \/ RemoteAnswer
    \/ RemoteReturn
    \/ RemoteRaise
    \/ RemoteCall

\* the host thread and the interpreter are each scheduled as long as they can
\* run: neither stops between two statements
SpecLive == Init /\ [][NextLive]_vars /\ WF_vars(HostStep) /\ WF_vars(RemoteStep)

\* the calls of the interpreter into callables, one after another, while the
\* child may die
NextCall ==
    \/ CallBegin
    \/ CallArg
    \/ CallRun
    \/ CallFallback
    \/ CallVector
    \/ CallEnd
    \/ ChildExit

SpecCall == Init /\ [][NextCall]_vars

\* one range-for loop over a remote object
NextIter ==
    \/ IterBegin
    \/ IterStep
    \/ IterEnd

InitStart ==
    /\ Fresh
    /\ impl = "nullptr"
    /\ child = "running"
    /\ phase = "unborn"
    /\ boot = Unborn
    /\ last = Step("", "")

NextStart ==
    \/ StartFork
    \/ StartClose
    \/ StartRead
    \/ StartFdopen
    \/ StartError
    \/ StartWait
    \/ Construct
    \/ BaseQuit
    \/ QuitFclose
    \/ QuitWaitid
    \/ KidWrite
    \/ KidExit

SpecStart == InitStart /\ [][NextStart]_vars

NextPack ==
    \/ PackInt
    \/ UnpackInt
    \/ SendCmd
    \/ RecvHeader

SpecPack == Init /\ [][NextPack]_vars

NextFloat ==
    \/ FloatBegin
    \/ FloatFormat
    \/ FloatFromhex
    \/ FloatHex
    \/ FloatScan

SpecFloat == Init /\ [][NextFloat]_vars

NextSize ==
    \/ SizeFrame
    \/ SizeAlloc
    \/ SizeRead

SpecSize == Init /\ [][NextSize]_vars

\* the table with an interpreter that drops each wrapper once
NextTable ==
    \/ MakeRemote
    \/ HandleDel

SpecTable == Init /\ [][NextTable]_vars

\* the table with an interpreter that may drop a wrapper twice
NextTableAgain ==
    \/ MakeRemote
    \/ HandleDel
    \/ HandleDelAgain

SpecTableAgain == Init /\ [][NextTableAgain]_vars

\* commands, callables and proxies of the user code, send by send, while the
\* child may die
NextSend ==
    \/ SendBegin
    \/ SendObject
    \/ SendWait
    \/ SendReturn
    \/ SendCalled
    \/ SendReply
    \/ SendDrop
    \/ ChildExit

SpecSend == Init /\ [][NextSend]_vars

SpecIter == Init /\ [][NextIter]_vars

\* one operation of the bridge with its arguments coerced one by one
NextCross ==
    \/ CrossBegin
    \/ CrossCoerce
    \/ CrossSend

SpecCross == Init /\ [][NextCross]_vars

(***************************************************************************)
(* The properties.                                                         *)
(***************************************************************************)

\* C1 - Drop balance.  While the bridge runs and the transport is healthy,
\* every RemoteIndex wrapped in a proxy is, after any moves, move-assignments,
\* swaps, null-assignments and destructions, either held by exactly one
\* non-null proxy with no `~` frame sent for it, or held by none with exactly
\* one `~` frame sent: so one `~` once all proxies are destroyed, and none from
\* a null proxy.
DropBalance ==
    (impl = "impl" /\ ~err) => \A i \in 1..made : Drops(i) + Owners(i) = 1

\* every proxy is destroyed, the one destroyed last was null and sent nothing,
\* and each RemoteIndex has its one `~`
DropBalanceWitness ==
    /\ impl = "impl" /\ ~err
    /\ made = MaxObjs
    /\ \A v \in Vars : proxies[v].st = "absent"
    /\ \A i \in 1..made : Drops(i) = 1
    /\ last = Step("~object", "ok") /\ calls = <<>>

\* C2 - Reentrancy.  The `r` or `e` frame a wait_for_ret invocation consumes is
\* the reply to the command that invocation was called for, however deep the
\* host callables and their own commands are nested.
Reentrancy == match.by = match.for

\* a command issued by a running host callable has got its own reply while the
\* command that led to the callable is still pending
ReentrancyWitness ==
    /\ last = Step("wait_for_ret", "return")
    /\ match.by # 0 /\ match.by = match.for
    /\ Len(stack) >= 2
    /\ stack[1].k = "wait" /\ stack[1].id < match.by
    /\ Top(stack).k = "call" /\ Top(stack).pc = "run"

\* C3 - Exception identity.  When the `e` reply of a command carries the
\* instance of py_wrapped_cpp_exc made for exception E of a host callable, the
\* host rethrows the stored E itself, not a wrapper of the remote exception.
ExceptionIdentity == rethrown.orig # "" => rethrown.x = rethrown.orig

\* an exception of the user's own type thrown by a callable has come back
ExceptionIdentityWitness ==
    /\ rethrown.orig \in NativeExcs
    /\ rethrown.x = rethrown.orig
    /\ last = Step("rethrow_exc", rethrown.x)
    /\ pending = Exc(rethrown.x, 0)

\* C4 - Free-list soundness.  The HostIndexes cmd_make_remote has handed out
\* are 0..k-1 for some k, and the cell of the one handed out last was not a
\* live one (a function or an exception) when it was taken.
FreeListSound ==
    /\ issued = 0..(Cardinality(issued) - 1)
    /\ reg.was \notin {"fn", "exc"}

\* a released cell has been handed out again
FreeListSoundWitness ==
    /\ reg.was = "free"
    /\ Cardinality(issued) >= 2
    /\ CellAt(py_to_cpp_ptrs, reg.idx).tag \in {"fn", "exc"}

\* the cells next_free leads through from head, at most n of them
RECURSIVE FreeChain(_, _, _)
FreeChain(ptrs, head, n) ==
    IF n = 0 \/ ~InTable(ptrs, head) THEN <<>>
    ELSE IF ptrs[head + 1].tag # "free" THEN <<>>
    ELSE <<head>> \o FreeChain(ptrs, ptrs[head + 1].next, n - 1)

\* next_free leads from head to ~0 through free cells in at most n steps
RECURSIVE ChainEnds(_, _, _)
ChainEnds(ptrs, head, n) ==
    IF head = NoNext THEN TRUE
    ELSE IF n = 0 \/ ~InTable(ptrs, head) THEN FALSE
    ELSE IF ptrs[head + 1].tag # "free" THEN FALSE
    ELSE ChainEnds(ptrs, ptrs[head + 1].next, n - 1)

\* C5 - While the bridge runs, next_free leads from the free-list head to ~0
\* without visiting a cell twice, and every cell of the table is a function, an
\* exception, or a free cell on that chain.
TablePartition ==
    (impl = "impl" /\ phase = "alive") =>
        LET ptrs == py_to_cpp_ptrs
            chain == FreeChain(ptrs, py_to_cpp_ptrs_free_list, Len(ptrs))
        IN  /\ ChainEnds(ptrs, py_to_cpp_ptrs_free_list, Len(ptrs))
            /\ \A i, j \in 1..Len(chain) : chain[i] = chain[j] => i = j
            /\ \A c \in 0..(Len(ptrs) - 1) :
                 /\ ptrs[c + 1].tag \in {"free", "fn", "exc"}
                 /\ ptrs[c + 1].tag = "free" <=> \E i \in 1..Len(chain) : chain[i] = c

\* two cells are on the free chain
TablePartitionWitness ==
    /\ impl = "impl" /\ phase = "alive"
    /\ Len(FreeChain(py_to_cpp_ptrs, py_to_cpp_ptrs_free_list, Len(py_to_cpp_ptrs))) >= 2

\* the operation was given a proxy of another bridge
HasForeign == \E j \in 1..Len(xop.args) : xop.args[j] = "foreign"

\* every argument before the first foreign proxy is a proxy of this bridge
OnlyOwnBefore ==
    \A j \in 1..Len(xop.args) :
        (\A i \in 1..(j - 1) : xop.args[i] # "foreign") => xop.args[j] # "value"

\* C6 - Cross-bridge rejection, as the code has it.  An operation given a proxy
\* of another bridge ends with invalid_argument when the coercion reaches that
\* proxy, and its own frame is never sent; what was sent before is the
\* commands that coerce the arguments to its left and build a star-call's
\* argument list.  So no byte at all is sent exactly when the operation is a
\* plain call, a tuple or an operator and only proxies of this bridge stand
\* before the foreign one.
CrossBridgeRejection ==
    /\ \A j \in 1..Len(xop.args) :
         (xop.args[j] = "foreign" /\ xop.pos > j) => xop.res = "invalid_argument"
    /\ xop.res = "returned" => ~HasForeign
    /\ xop.res = "invalid_argument" =>
         /\ HasForeign
         /\ xop.args[xop.pos] = "foreign"
         /\ \A k \in 1..Len(Sent) : Sent[k].op \in {"S", "I", "C", "~"}
         /\ Sent = <<>> <=> (xop.kind # "starcall" /\ OnlyOwnBefore)

\* a plain call with a proxy of this bridge and then a foreign one is rejected
\* with nothing sent
CrossBridgeRejectionWitness ==
    /\ xop.kind = "call"
    /\ xop.args = <<"own", "foreign">>
    /\ xop.res = "invalid_argument"
    /\ Sent = <<>>

\* C6 as the specification has it: a rejected operation has sent no bytes,
\* wherever the foreign proxy stands and whatever the operation is.
CrossBridgeNoBytes == xop.res = "invalid_argument" => Sent = <<>>

\* a transport call that failed
Failed(log) == \E k \in 1..Len(log) : ~log[k].ok

\* the steps that swallow an io_error: ~object and ~process_t
Swallowing == {"dtor", "result", "destructor"}

\* C7 - The latch.  A transport call that fails leaves the error flag set; the
\* flag stays set; with it set every send, flush and recv fails without doing
\* I/O; and a step with a failed transport call ends in io_error unless it is
\* a destructor.
Latched ==
    [][/\ err => err'
       /\ Failed(calls') => err'
       /\ err => \A k \in 1..Len(calls') : ~calls'[k].ok /\ calls'[k].io = 0
       /\ (Failed(calls') /\ last'.op \notin Swallowing) => last'.res = "io_error"]_vars

\* with the flag set, a later command has failed on its send without I/O
LatchedWitness ==
    /\ err
    /\ last = Step("command", "io_error")
    /\ calls = <<Call("send", FALSE, 0, Len(cpp_to_py))>>

\* wait_for_ret has read a frame that is none of c, ~, r, e
ProtocolError == garbled /\ \A k \in 1..Len(py_to_cpp) : py_to_cpp[k].op # "?"

\* C8 - An invalid opcode is fatal like a transport error: once wait_for_ret
\* has read one, every transport call of every later step fails.
ProtocolErrorFatal ==
    [][ProtocolError => \A k \in 1..Len(calls') : ~calls'[k].ok]_vars

\* C9 - An io_error in flight below the main program is not recovered: the
\* step that takes it leaves the frame it has reached with the io_error still
\* in flight, and so no handle_call turns it into an `e` reply.
ErrorsNotRecovered ==
    [][(/\ pending = IoError
        /\ stack # <<>>
        /\ (stack' # stack \/ pending' # pending))
       => (pending' = IoError /\ Len(stack') < Len(stack))]_vars

\* C10 - terminated(), as the code has it: false until terminate() has called
\* quit - so false after construction, after a transport failure, and after a
\* terminate() that failed on its send - and true from then on, whether quit
\* succeeded or raised io_error.
TerminatedAfterQuit ==
    (phase = "alive" /\ qpc = NoQuit) => (impl = "nullptr" <=> term \in {"ok", "quit failed"})

\* terminate() has raised io_error out of quit, and terminated() is true
TerminatedAfterQuitWitness ==
    /\ phase = "alive"
    /\ last = Step("terminate", "io_error")
    /\ term = "quit failed"
    /\ impl = "nullptr"

\* C10 as the specification has it: terminated() is true only once terminate()
\* has succeeded.
TerminatedOnlyOnSuccess ==
    (phase = "alive" /\ qpc = NoQuit) => (impl = "nullptr" <=> term = "ok")

Dropping == {"~object", "operator=(object &&)", "operator=(nullptr)"}

\* C12 - Proxies after termination, as the code has it.  Once terminated() is
\* true, a destruction, a move assignment or a null assignment of a proxy calls
\* nothing of the transport, sends nothing and raises nothing.  After a
\* terminate() that has raised io_error before quit() (terminated() is still
\* false) such a step still puts no frame on the transport, and a destruction
\* still raises nothing.
ProxyNoopOnceTerminated ==
    [][/\ (impl = "nullptr" /\ last'.op \in Dropping) =>
            /\ calls' = <<>>
            /\ Sent' = Sent
            /\ err' = err
            /\ last'.res = "ok"
       /\ (term # "none" /\ last'.op \in Dropping) =>
            /\ Sent' = Sent
            /\ last'.op = "~object" => last'.res = "ok"]_vars

\* a proxy that was alive when terminate() succeeded has been made null since,
\* with no `~` sent for the index it held
ProxyNoopOnceTerminatedWitness ==
    /\ term = "ok"
    /\ impl = "nullptr"
    /\ last = Step("operator=(nullptr)", "ok")
    /\ made >= 1
    /\ Owners(1) = 0
    /\ Drops(1) = 0

\* C12 as the specification has it: once terminate() has been called, however
\* it ended, dropping a proxy sends nothing and raises nothing.
ProxyNoopAfterTerminateCall ==
    [][(term # "none" /\ last'.op \in Dropping) =>
           (Sent' = Sent /\ last'.res = "ok")]_vars

\* the final frame of the main loop
Final == Frame("r", Sentinel, <<>>, 0)

\* how many times frame fr is in seq
Count(seq, fr) == Cardinality({k \in 1..Len(seq) : seq[k] = fr})

\* C13 - Clean termination, in the order the code has it: terminate() gives
\* the final `r` frame with the sentinel to the transport after every frame
\* buffered before; quit() then marks the bridge terminated; only then are the
\* streams closed, which writes the buffer with the final frame last to the
\* pipe; and the child is waited for after that.  A terminate() that succeeds
\* has sent the final frame exactly once.
CleanTermination ==
    /\ (qpc.who = "terminate" /\ qpc.pc \in {"quit", "close"}) =>
           (~closed /\ cpp_to_py # <<>> /\ Top(cpp_to_py) = Final)
    /\ (closed /\ phase # "failed") => impl = "nullptr"
    /\ reaped => closed
    /\ (closed /\ qpc.who = "terminate" /\ qpc.ok) => (wire # <<>> /\ Top(wire) = Final)
    /\ term = "ok" =>
           /\ closed /\ reaped /\ impl = "nullptr"
           /\ cpp_to_py = <<>>
           /\ wire # <<>> /\ Top(wire) = Final
           /\ Count(wire, Final) = 1

\* terminate() has succeeded with a frame buffered before the final one
CleanTerminationWitness ==
    /\ term = "ok"
    /\ Len(wire) >= 2
    /\ wire[Len(wire) - 1].op = "~"
    /\ Top(wire) = Final

\* C13 as the specification has it: the bridge is marked terminated only after
\* the streams are closed and the child is waited for.
TerminatedMarkedLast ==
    /\ reaped => closed
    /\ impl = "nullptr" => (closed /\ reaped)

\* the replies to calls among the frames of seq
Replies(seq) ==
    Cardinality({k \in 1..Len(seq) : seq[k].op \in {"r", "e"} /\ seq[k] # Final})

\* handle_call returns to the wait_for_ret that called it
ReturnsFromCall ==
    /\ stack # <<>>
    /\ Top(stack).k = "call"
    /\ stack' = Pop(stack)
    /\ pending'.t = "none"

\* C14 - One reply per call.  A step of the host gives a reply frame (`r` or
\* `e`) to the transport exactly when handle_call returns in it, and then
\* exactly one: so a call serviced to its end has had one reply, sent as
\* handle_call returns and not before, whether the callable returned,
\* threw a proxy or an exception of its own, or was given a number of
\* arguments it does not take.
OneReply ==
    [][last'.op \notin {"remote", "terminate", "destructor"} =>
           Replies(Sent') - Replies(Sent) = (IF ReturnsFromCall THEN 1 ELSE 0)]_vars

\* a callable made by the main program was called with one argument too many:
\* the argument has been released and the TypeError sent as the one reply
OneReplyWitness ==
    /\ last = Step("handle_call", "replied")
    /\ nops = 2
    /\ Len(cpp_to_py) >= 2
    /\ cpp_to_py[Len(cpp_to_py) - 1].op = "e"
    /\ Top(cpp_to_py) = Frame("~", cpp_to_py[Len(cpp_to_py) - 1].arg, <<>>, 0)
    /\ RAt(robj, Top(cpp_to_py).arg).k = "pyexc"
    /\ stack # <<>> /\ Top(stack).k = "wait"

\* the frames a step of the host has given to the transport
NewFrames == SubSeq(Sent', Len(Sent) + 1, Len(Sent'))

\* the frames of seq with opcode op
Only(seq, op) == SelectSeq(seq, LAMBDA fr : fr.op = op)

\* no transport call of the step has failed
Healthy == \A k \in 1..Len(calls') : calls'[k].ok

\* an exception is about to leave the callable of the topmost handle_call
Leaving ==
    /\ stack # <<>>
    /\ Top(stack).k = "call" /\ Top(stack).pc = "run"
    /\ pending.t = "exc"
    /\ stack' # stack

\* the callable of the topmost handle_call throws in this step
Throws ==
    /\ stack # <<>>
    /\ Top(stack).k = "call" /\ Top(stack).pc = "run"
    /\ pending.t = "none"
    /\ last'.op = "handle_call"
    /\ Only(NewFrames, "r") = <<>>

\* C15 - A callable that exits by exception, on a healthy transport.  A proxy
\* (a remote exception of a nested command) is sent as `e` with its own
\* RemoteIndex and the table is left alone.  Any other exception is stored in
\* exactly one cell of the table and `R` is sent for that cell's index; the
\* call of py_wrapped_cpp_exc on the wrapper follows; and `e` carries the
\* instance.  In each step the frames below handle_call stay as they are and
\* no exception is in flight afterwards.
ForwardedOnce ==
    [][/\ (Leaving /\ Healthy /\ pending.x = "pyexc") =>
            /\ Only(NewFrames, "e") = <<Frame("e", pending.v, <<>>, 0)>>
            /\ Only(NewFrames, "R") = <<>>
            /\ py_to_cpp_ptrs' = py_to_cpp_ptrs /\ issued' = issued
            /\ stack' = Pop(stack)
            /\ pending'.t = "none"
       /\ (Leaving /\ Healthy /\ pending.x # "pyexc") =>
            /\ Only(NewFrames, "e") = <<>>
            /\ Only(NewFrames, "R") = <<Frame("R", reg'.idx, <<>>, ncmd')>>
            /\ CellAt(py_to_cpp_ptrs', reg'.idx) = Slot("exc", NoNext, pending.x)
            /\ CellAt(py_to_cpp_ptrs, reg'.idx).tag \in {"free", "wild"}
            /\ \A i \in 0..(Len(py_to_cpp_ptrs') - 1) :
                 i # reg'.idx => CellAt(py_to_cpp_ptrs', i) = CellAt(py_to_cpp_ptrs, i)
            /\ stack' = Pop(stack) \o <<[Top(stack) EXCEPT !.pc = "catch1", !.a = 0,
                                                          !.x = pending.x], Wait(ncmd')>>
            /\ pending'.t = "none"
       /\ (Throws /\ Healthy /\ last'.res = "replied") =>
            /\ Top(stack).a # 0
            /\ Only(NewFrames, "e") = <<Frame("e", Top(stack).a, <<>>, 0)>>
            /\ Only(NewFrames, "R") = <<>>
            /\ py_to_cpp_ptrs' = py_to_cpp_ptrs /\ issued' = issued
            /\ stack' = Pop(stack)
            /\ pending'.t = "none"
       /\ (Throws /\ Healthy /\ last'.res # "replied") =>
            /\ Only(NewFrames, "e") = <<>>
            /\ Only(NewFrames, "R") = <<Frame("R", reg'.idx, <<>>, ncmd')>>
            /\ stack'[Len(stack)].x \in NativeExcs
            /\ CellAt(py_to_cpp_ptrs', reg'.idx) = Slot("exc", NoNext, stack'[Len(stack)].x)
            /\ CellAt(py_to_cpp_ptrs, reg'.idx).tag \in {"free", "wild"}
            /\ \A i \in 0..(Len(py_to_cpp_ptrs') - 1) :
                 i # reg'.idx => CellAt(py_to_cpp_ptrs', i) = CellAt(py_to_cpp_ptrs, i)
            /\ Pop(Pop(stack')) = Pop(stack)
            /\ pending'.t = "none"
       /\ (stack # <<>> /\ Top(stack).k = "call" /\ Top(stack).pc = "catch1"
           /\ pending.t = "ret" /\ stack' # stack /\ Healthy) =>
            /\ NewFrames = <<Frame("C", 1, <<CppExcType, pending.v>>, ncmd')>>
            /\ py_to_cpp_ptrs' = py_to_cpp_ptrs
            /\ Pop(stack') = Pop(stack) \o <<[Top(stack) EXCEPT !.pc = "catch2", !.b = pending.v]>>
            /\ pending'.t = "none"
       /\ (stack # <<>> /\ Top(stack).k = "call" /\ Top(stack).pc = "catch2"
           /\ pending.t = "ret" /\ stack' # stack /\ Healthy) =>
            /\ Only(NewFrames, "e") = <<Frame("e", pending.v, <<>>, 0)>>
            /\ py_to_cpp_ptrs' = py_to_cpp_ptrs
            /\ stack' = Pop(stack)
            /\ pending'.t = "none"]_vars

\* an exception of the callable's own has been forwarded: its cell is in the
\* table, the `e` frame with the instance has been sent, and handle_call has
\* returned to wait_for_ret
ForwardedOnceWitness ==
    /\ last = Step("handle_call", "replied")
    /\ \E i \in 1..Len(py_to_cpp_ptrs) :
         /\ py_to_cpp_ptrs[i].tag = "exc" /\ py_to_cpp_ptrs[i].val \in NativeExcs
         /\ \E k \in 1..Len(cpp_to_py) :
              /\ cpp_to_py[k].op = "e"
              /\ RAt(robj, cpp_to_py[k].arg).k = "cppexc"
              /\ RAt(robj, cpp_to_py[k].arg).hidx = i - 1
    /\ stack # <<>> /\ Top(stack).k = "wait"
    /\ pending.t = "none"

\* rethrow_exc has learnt that exc_obj is no instance of py_wrapped_cpp_exc
NotTunnel ==
    /\ stack # <<>>
    /\ Top(stack).k = "rethrow"
    /\ pending.t = "ret" /\ pending.v = NoNext

\* C16 - A remote exception is surfaced and is not fatal.  When the `e` reply
\* of a command carries an exception that is not of the tunnel type,
\* rethrow_exc throws exc_obj itself as a remote-exception object to the code
\* that issued that command - the main program or a running callable - with
\* no transport call made and the error flag and the bridge left as they are;
\* and the main program that takes it is between operations again, free to
\* issue the next command.
RemoteExceptionSurfaces ==
    [][/\ (NotTunnel /\ (stack' # stack \/ pending' # pending)) =>
            /\ pending' = Exc("pyexc", Top(stack).a)
            /\ stack' = Pop(stack)
            /\ stack' = <<>> \/ (Top(stack').k = "call" /\ Top(stack').pc = "run")
            /\ calls' = <<>> /\ err' = err /\ impl' = impl
            /\ rethrown'.x = "pyexc"
       /\ (stack = <<>> /\ pending.t = "exc" /\ pending.x = "pyexc" /\ pending' # pending) =>
            /\ pending' = None /\ stack' = <<>>
            /\ err' = err /\ impl' = impl /\ qpc' = NoQuit]_vars

\* after a remote exception was surfaced, a later command of the main program
\* has returned with its own reply on a healthy transport
RemoteExceptionSurfacesWitness ==
    /\ rethrown.x = "pyexc"
    /\ last = Step("wait_for_ret", "return")
    /\ stack = <<>>
    /\ pending.t = "ret"
    /\ match.by = match.for /\ match.by = ncmd
    /\ ~err

\* the exception proxy of variable v is destroyed in this step
Destroyed(v) == excs[v].st = "exception" /\ excs'[v].st = "destroyed"

AfterBridge == {"what", "cpp_wrapped_py_exc(cpp_wrapped_py_exc &&)", "dup"}

\* C18 - Exception proxies after the bridge.  Once the bridge is terminated or
\* destroyed, what(), the move constructor and dup() of an exception proxy
\* send nothing, call nothing of the transport and leave the bridge as it is;
\* what() returns the description captured at construction, and dup() returns
\* normally with a null proxy that carries the description of its source.
ExcUsableAfterBridge ==
    [][((terminated(impl) \/ phase = "destroyed") /\ last'.op \in AfterBridge) =>
          /\ Sent' = Sent /\ calls' = <<>> /\ err' = err
          /\ impl' = impl /\ phase' = phase /\ stack' = stack /\ made' = made
          /\ py_to_cpp_ptrs' = py_to_cpp_ptrs
          /\ last'.op = "what" =>
                /\ excs' = excs
                /\ \E v \in Vars : excs[v].st = "exception" /\ last'.res = excs[v].msg
          /\ last'.op = "dup" =>
                /\ last'.res = "ok"
                /\ \E to \in Vars, from \in Vars :
                     /\ excs[to].st = "absent"
                     /\ excs[from].st = "exception"
                     /\ excs'[to].st = "exception"
                     /\ ~excs'[to].proc
                     /\ excs'[to].msg = excs[from].msg
                     /\ excs'[from] = excs[from]]_vars

\* the transport calls of the latest step that went to fread
Reads == {k \in 1..Len(calls) : calls[k].fn = "recv" /\ calls[k].io = 1}

\* C19 - Flush before every blocking read.  Whenever the host calls fread (for
\* a frame header in wait_for_ret, for num_args and the arguments of a `c`
\* frame in handle_call, for the bytes after the reply to `b` in
\* cmd_get_bytes), no frame is held in the output buffer.
ReadsWithEmptyBuffer ==
    \A k \in Reads : calls[k].unsent = 0

\* handle_call has read the header of a `c` frame, its num_args and one
\* argument, while a command of the host is outstanding and has reached the
\* interpreter
ReadsWithEmptyBufferWitness ==
    /\ last = Step("wait_for_ret", "call")
    /\ Reads = {1, 2, 3}
    /\ ncmd > 0
    /\ Top(stack).k = "call" /\ Top(stack).pc = "fallback"

\* some command is waited for by a wait_for_ret on the host's stack
Waiting == \E k \in 1..Len(stack) : stack[k].k = "wait"

\* the host thread is inside fread with nothing to read
HostBlocked ==
    /\ stack # <<>>
    /\ ~err
    /\ py_to_cpp = <<>>
    /\ \/ Top(stack).k = "wait" /\ Top(stack).pc = "recv" /\ pending.t = "none"
       \/ Top(stack).k = "getbytes" /\ pending.t = "ret" /\ pending.v > 0

\* the interpreter is inside its read of the next frame with nothing to read
RemoteBlocked ==
    /\ child = "running"
    /\ wire = <<>>
    /\ IF rstack = <<>> THEN TRUE ELSE Top(rstack).k = "call"

\* C20 - Deadlock freedom.  With an interpreter that follows the protocol and
\* stays alive, and callables that end, no command is waited for for ever:
\* whenever a wait_for_ret is on the host's stack, a state follows in which
\* none is (each has returned or thrown); and the host and the interpreter
\* are never both blocked in a read of their pipe.
DeadlockFree ==
    /\ Waiting ~> ~Waiting
    /\ []~(HostBlocked /\ RemoteBlocked)

\* a command of the main program has returned after the interpreter called
\* back into the host, which issued commands of its own in the meantime
DeadlockFreeWitness ==
    /\ stack = <<>>
    /\ last = Step("wait_for_ret", "return")
    /\ match.by = match.for
    /\ match.by < ncmd
    /\ rstack = <<>>
    /\ ~err

\* C21 - Arguments of a call are owned.  When handle_call has ended for a `c`
\* frame and the transport is healthy, exactly one `~` frame has been sent for
\* each RemoteIndex the frame carried as an argument: whether the callable
\* returned or threw, a conversion of an argument threw, or the number of
\* arguments was not accepted.
ArgsDroppedOnce ==
    (inv.st = "done" /\ ~err) => \A i \in 1..Len(inv.args) : Drops(inv.args[i]) = 1

\* a step of the host gives a `~` frame to the transport
SendsDrop == last'.op # "remote" /\ Len(Only(NewFrames, "~")) > 0

\* every wait_for_ret on the stack is below a handle_call
WaitsBelowCalls ==
    \A k \in 1..Len(stack) :
       stack[k].k = "wait" => \E j \in (k + 1)..Len(stack) : stack[j].k = "call"

Yielded(n) == it.st = "ended" /\ it.seen = [i \in 1..n |-> i]

\* C23 - Iteration.  A range-for loop over a remote iterator that produces n
\* elements and then raises StopIteration runs its body with exactly these
\* elements in order and ends without an exception, for every n >= 0; when a
\* call of next raises another exception, the loop has seen the elements
\* before it and the exception reaches the caller.
IterationYieldsAll ==
    it.st \in {"ended", "thrown"} =>
       IF it.bad = 0 \/ it.bad > it.n + 1
         THEN Yielded(it.n)
         ELSE it.st = "thrown" /\ it.x = "pyexc" /\ it.seen = [i \in 1..(it.bad - 1) |-> i]

(***************************************************************************)
(* C24: construction succeeds only if the first byte read from the child   *)
(* is `+`; after any other first byte, the end of the stream or a read     *)
(* error, start has returned NULL, the forked child has been waited for    *)
(* and no child remains, and the constructor has thrown io_error.          *)
(***************************************************************************)
StartFailsCleanly ==
    boot.pc \in {"thrown", "started"} =>
      /\ last.res = "ok" => boot.first = "+"
      /\ boot.first \in {"x", "EOF", "error"} =>
           /\ boot.ret = "NULL" /\ last = Step("construct", "io_error")
           /\ boot.waits = 1 /\ boot.gone

(***************************************************************************)
(* C25: when snaketongs_impl_quit has returned, both pipe ends are closed  *)
(* and the child has been waited for once, whatever failed on the way; it  *)
(* has returned true only if both fclose calls and waitid succeeded and    *)
(* the child had exited with status 0.                                     *)
(***************************************************************************)
QuitClosesAndWaits ==
    boot.pc = "quit returned" =>
      /\ boot.fds = {} /\ boot.waits = 1 /\ ~boot.self
      /\ boot.res = "true" => boot.faults = {} /\ boot.kid = "exited0" /\ boot.gone
      /\ (boot.who = "quit" /\ boot.res = "false") => last.res = "io_error"

QuitClosesAndWaitsWitness ==
    /\ boot.pc = "quit returned"
    /\ boot.who = "quit"
    /\ boot.kid = "exited1"
    /\ boot.faults = {}
    /\ boot.res = "false"

(***************************************************************************)
(* C26: unpack_int gives back the integer pack_int was given, negative     *)
(* ones included; the bytes of the encoding are the base-256 digits of the *)
(* integer taken modulo 2^(8 * int_size), least significant first; and the *)
(* header of a command is one opcode byte followed by the int_size bytes   *)
(* of its packed integer.                                                  *)
(***************************************************************************)
LittleEndian(c, v) ==
    /\ Len(c) = int_size
    /\ \A i \in 1..int_size : c[i] \in 0..255
    /\ Weigh(c) = (IF v < 0 THEN v + Word ELSE v)

PackIntRoundTrip ==
    /\ num.pc \in {"packed", "unpacked"} => LittleEndian(num.data, num.v)
    /\ num.pc \in {"unpacked", "received"} => num.back = num.v
    /\ num.pc \in {"sent", "received"} =>
         /\ Len(num.data) = 1 + int_size
         /\ Head(num.data) \in Cmds
         /\ LittleEndian(Tail(num.data), num.v)

PackIntRoundTripWitness ==
    /\ num.pc = "unpacked"
    /\ num.v < 0
    /\ num.data[1] # num.data[int_size]
    /\ num.back = num.v

(***************************************************************************)
(* C27: a double made a remote float and read back is the same bit         *)
(* pattern when it is finite, a zero of either sign, an infinity or the    *)
(* NaN of the NAN macro; any other NaN comes back as a NaN.  A float goes  *)
(* through double both ways and comes back likewise.                       *)
(***************************************************************************)
FloatRoundTrip ==
    /\ fl.pc # "terminate"
    /\ fl.pc = "done" =>
         LET f == IF fl.ty = "float" THEN binary32 ELSE binary64
         IN  /\ ~isnan(f, fl.x) => fl.back = fl.x
             /\ isnan(f, fl.x) => isnan(f, fl.back)
             /\ fl.x = NAN(f) => fl.back = fl.x

FloatRoundTripWitness ==
    /\ fl.pc = "done"
    /\ fl.ty = "double"
    /\ fl.x.s = 1 /\ fl.x.e = 0 /\ fl.x.m = 0
    /\ fl.back = fl.x

(***************************************************************************)
(* C28: a frame whose size is negative (the number of arguments of an      *)
(* inbound `c`, the length in the reply to `b`) ends in io_error, with no  *)
(* payload read and nothing allocated.                                     *)
(***************************************************************************)
ImpossibleSizeIsIoError ==
    (sz.pc = "done" /\ sz.n < 0) =>
      /\ sz.thrown = "io_error"
      /\ sz.reads = 0
      /\ sz.alloc = 0

(***************************************************************************)
(* C29: snaketongs_impl_quit is never called a second time, and it has     *)
(* been called once when the bridge is gone, however it went: a            *)
(* constructor that threw after the child was started, terminate() that    *)
(* succeeded or failed at its send or inside quit(), a transport failure.  *)
(* The destructor of a bridge whose terminate() succeeded calls nothing of *)
(* the transport.                                                          *)
(***************************************************************************)
DestructorAfterTerminate ==
    /\ term = "ok"
    /\ last'.op = "destructor"
    /\ phase = "alive" /\ phase' = "destroyed"

QuitExactlyOnce ==
    /\ [](quits <= 1)
    /\ [](phase = "destroyed" => quits = 1 /\ closed /\ reaped)
    /\ []((phase = "failed" /\ qpc = NoQuit) => quits = 1 /\ closed /\ reaped)
    /\ [](term \in {"ok", "quit failed"} => quits = 1)
    /\ [][DestructorAfterTerminate =>
            /\ calls' = <<>>
            /\ UNCHANGED <<err, cpp_to_py, wire, py_to_cpp, closed, quits, reaped, impl>>]_vars

QuitExactlyOnceWitness ==
    /\ phase = "destroyed"
    /\ term = "ok"
    /\ last = Step("destructor", "ok")
    /\ calls = <<>>
    /\ quits = 1

(***************************************************************************)
(* C30: while the bridge runs, a cell of py_to_cpp_ptrs that holds a       *)
(* function or an exception_ptr changes only in the step that handles an   *)
(* inbound `~` frame with the cell's index, and then it becomes a free     *)
(* list entry; every other step of the host leaves the live cells as they  *)
(* are.                                                                    *)
(***************************************************************************)
LiveCellChanges(i) ==
    /\ py_to_cpp_ptrs[i].tag \in {"fn", "exc"}
    /\ IF i <= Len(py_to_cpp_ptrs') THEN py_to_cpp_ptrs'[i] # py_to_cpp_ptrs[i] ELSE TRUE

DelHandled(i) ==
    /\ py_to_cpp # <<>>
    /\ Head(py_to_cpp).op = "~" /\ Head(py_to_cpp).arg = i - 1
    /\ py_to_cpp' = Tail(py_to_cpp)
    /\ last' = Step("wait_for_ret", "del")
    /\ i <= Len(py_to_cpp_ptrs') /\ py_to_cpp_ptrs'[i].tag = "free"

SlotFreedOnlyByDel ==
    [][(phase = "alive" /\ impl = "impl" /\ qpc = NoQuit) =>
         \A i \in 1..Len(py_to_cpp_ptrs) : LiveCellChanges(i) => DelHandled(i)]_vars

SlotFreedOnlyByDelWitness ==
    /\ last = Step("wait_for_ret", "del")
    /\ phase = "alive"
    /\ \E i \in 1..Len(py_to_cpp_ptrs) :
         /\ py_to_cpp_ptrs[i].tag = "free"
         /\ py_to_cpp_ptrs_free_list = i - 1
    /\ \E i \in 1..Len(py_to_cpp_ptrs) : py_to_cpp_ptrs[i].tag \in {"fn", "exc"}

(***************************************************************************)
(* C31: cmd_make_remote takes the cells in LIFO order.  With a free cell   *)
(* it hands out the head of the free list, the cell released last and not  *)
(* taken since, and the head becomes that cell's next_free; with none it   *)
(* hands out the length of the table and appends.  handle_del makes its    *)
(* cell the head, with the head before it as next_free.  The table never   *)
(* gets shorter while the bridge runs.                                     *)
(***************************************************************************)
Chain(ptrs, head) == FreeChain(ptrs, head, Len(ptrs))

\* the step has registered cell i: it was free or beyond the table, and is a
\* function or an exception now
Taken(i) ==
    /\ CellAt(py_to_cpp_ptrs, i).tag \in {"free", "wild"}
    /\ InTable(py_to_cpp_ptrs', i)
    /\ py_to_cpp_ptrs'[i + 1].tag \in {"fn", "exc"}

\* the step has released cell i
Released(i) ==
    /\ CellAt(py_to_cpp_ptrs, i).tag \in {"fn", "exc"}
    /\ InTable(py_to_cpp_ptrs', i)
    /\ py_to_cpp_ptrs'[i + 1].tag = "free"

RegisterIsLifo ==
    [][(phase = "alive" /\ phase' = "alive" /\ impl = "impl") =>
         LET ptrs == py_to_cpp_ptrs
             head == py_to_cpp_ptrs_free_list
         IN  /\ Len(ptrs') >= Len(ptrs)
             /\ \A i \in 0..Len(ptrs) :
                  /\ Taken(i) =>
                       /\ reg'.idx = i
                       /\ IF any(head)
                            THEN /\ i = Head(Chain(ptrs, head))
                                 /\ py_to_cpp_ptrs_free_list' = ptrs[i + 1].next
                                 /\ Chain(ptrs', py_to_cpp_ptrs_free_list') = Tail(Chain(ptrs, head))
                                 /\ Len(ptrs') = Len(ptrs)
                            ELSE /\ i = Len(ptrs)
                                 /\ ptrs' = Append(ptrs, ptrs'[i + 1])
                                 /\ py_to_cpp_ptrs_free_list' = head
                  /\ Released(i) =>
                       /\ py_to_cpp_ptrs_free_list' = i
                       /\ ptrs'[i + 1].next = head
                       /\ Chain(ptrs', i) = <<i>> \o Chain(ptrs, head)]_vars

\* of three cells released one after another, the one released last has been
\* handed out again, and the head is the one released before it
RegisterIsLifoWitness ==
    /\ last = Step("cmd_make_remote", "ok")
    /\ reg.was = "free"
    /\ Len(py_to_cpp_ptrs) = MaxCells
    /\ Len(Chain(py_to_cpp_ptrs, py_to_cpp_ptrs_free_list)) = MaxCells - 1
    /\ py_to_cpp_ptrs_free_list # reg.idx
    /\ py_to_cpp_ptrs_free_list > CellAt(py_to_cpp_ptrs, py_to_cpp_ptrs_free_list).next

(***************************************************************************)
(* C36: a frame `~` that names a cell which is free already does no harm   *)
(* to the table: next_free still leads from the head through free cells to *)
(* ~0 without coming back to a cell, and cmd_make_remote never hands out   *)
(* the index of a cell that holds a function or an exception.              *)
(***************************************************************************)
NeverHandedOutLive == reg.was \notin {"fn", "exc"}

DuplicateDropHarmless ==
    /\ ChainEnds(py_to_cpp_ptrs, py_to_cpp_ptrs_free_list, Len(py_to_cpp_ptrs))
    /\ NeverHandedOutLive

(***************************************************************************)
(* C32: a function of fixed arity made with maximum arity N, called with a *)
(* number of arguments it does not accept (more than N, or fewer with the  *)
(* functor not callable with that many): the user's functor is not called, *)
(* every argument gets its `~`, and the one reply is an `e` frame with the *)
(* TypeError made for it.  Called with N arguments, or with k < N that the *)
(* functor is callable with, the functor is given exactly the arguments of *)
(* the frame, in the frame's order.                                        *)
(***************************************************************************)
\* the number of arguments of the frame is one the functor accepts
Accepted ==
    \/ Len(inv.args) = Len(inv.params)
    \/ Len(inv.args) < Len(inv.params) /\ Len(inv.args) \in inv.takes

\* the frames of seq that answer a call
ReplyFrames(seq) == SelectSeq(seq, LAMBDA fr : fr.op \in {"r", "e"})

WrongArityIsTypeError ==
    /\ [](inv.st \notin {"idle", "vector"} /\ ~inv.variadic =>
            /\ inv.ran => Accepted /\ inv.given = inv.args
            /\ ~Accepted => ~inv.ran /\ inv.st \in {"fallback", "done"}
            /\ (Accepted /\ inv.st = "done" /\ inv.res = "replied") => inv.ran
            /\ (inv.st = "done" /\ inv.res = "TypeError") => ~Accepted)
    /\ [][(inv.st = "fallback" /\ inv'.st = "done" /\ ~err') =>
            /\ inv'.res = "TypeError" /\ ~inv'.ran
            /\ Only(NewFrames, "~") =
                 [i \in 1..(Len(inv.args) + 1) |->
                    Frame("~", IF i <= Len(inv.args) THEN inv.args[i] ELSE ExcRaw, <<>>, 0)]
            /\ ReplyFrames(NewFrames) = <<Frame("e", ExcRaw, <<>>, 0)>>
            /\ \E k \in 1..Len(NewFrames) :
                 /\ NewFrames[k].op = "S"
                 /\ \A j \in 1..Len(NewFrames) :
                      NewFrames[j].op = "e" => k < j]_vars

\* a function of two parameters that can also be called with none has been
\* called with one argument and has answered with the TypeError
WrongArityIsTypeErrorWitness ==
    /\ inv.st = "done" /\ inv.res = "TypeError" /\ ~err
    /\ Len(inv.params) = 2 /\ inv.takes = {0} /\ Len(inv.args) = 1
    /\ ~inv.ran
    /\ Drops(inv.args[1]) = 1
    /\ last = Step("handle_call", "TypeError")

(***************************************************************************)
(* C33: what the host has written is whole frames one after another, in    *)
(* the order in which they were issued: between the header of a command    *)
(* and the last object of its payload no `~` and no other frame is         *)
(* written, whatever the nesting of commands and callables, and the `~`    *)
(* frames are in the order in which the proxies were destroyed.  (The      *)
(* last frame is short of objects only while the host thread is inside     *)
(* its sender, or when a send has failed: nothing is written after that.)  *)
(***************************************************************************)
\* the objects that follow the header hd
PayloadOf(hd) == IF hd.op = "C" THEN hd.arg + 1 ELSE 0

\* the command that is sending now lacks k objects of the payload of hd
StillSending(hd, k) ==
    /\ snd.stk # <<>>
    /\ Top(snd.stk).k = "cmd" /\ Top(snd.stk).st = "sending"
    /\ Top(snd.stk).id = hd.id
    /\ Len(Top(snd.stk).left) = k

\* seq is whole frames; the last of them lacks the end of its payload only
\* while its command is sending it, or when the transport has failed
RECURSIVE WholeFrames(_)
WholeFrames(seq) ==
    IF seq = <<>> THEN TRUE
    ELSE LET hd == Head(seq)
             n == PayloadOf(hd)
             m == IF Len(seq) - 1 < n THEN Len(seq) - 1 ELSE n
         IN  /\ hd.op # "."
             /\ \A j \in 2..(m + 1) : seq[j].op = "." /\ seq[j].id = hd.id
             /\ m < n => err \/ StillSending(hd, n - m)
             /\ WholeFrames(SubSeq(seq, m + 2, Len(seq)))

\* the commands of seq, by their headers
Headers(seq) == SelectSeq(seq, LAMBDA fr : fr.op \notin {".", "~", "r", "e"})

\* the RemoteIndexes of the `~` frames of seq
Dropped(seq) == [k \in 1..Len(Only(seq, "~")) |-> Only(seq, "~")[k].arg]

FramesStayWhole ==
    /\ WholeFrames(Sent)
    /\ \A j, k \in 1..Len(Headers(Sent)) : j < k => Headers(Sent)[j].id < Headers(Sent)[k].id
    /\ Len(Dropped(Sent)) <= Len(snd.dead)
    /\ Dropped(Sent) = SubSeq(snd.dead, 1, Len(Dropped(Sent)))
    /\ ~err => Dropped(Sent) = snd.dead

\* a callable that runs inside the wait of a command with two arguments has
\* issued a command of its own with a temporary, and has replied; proxies have
\* been destroyed at both levels
FramesStayWholeWitness ==
    /\ ~err
    /\ snd.stk = <<>>
    /\ snd.called >= 1
    /\ Len(Headers(Sent)) >= 3
    /\ \E k \in 1..Len(Sent) : Sent[k].op = "C" /\ Sent[k].arg = 2
    /\ \E j, k \in 1..Len(Sent) :
         /\ j < k
         /\ Sent[j].op = "." /\ Sent[k].op \in {"r", "e"}
         /\ \E i \in (j + 1)..(k - 1) : Sent[i].op = "C" /\ Sent[i].id > Sent[j].id
    /\ Len(snd.dead) >= 3
    /\ last = Step("~object", "ok")

(***************************************************************************)
(* C34: when a callable of the host returns an object it has created, or   *)
(* is left by a thrown proxy or by a native exception, the `r` or `e`      *)
(* frame that carries the RemoteIndex is written before the `~` frame for  *)
(* that index: no reply names an index that an earlier frame has dropped.  *)
(***************************************************************************)
ReplyBeforeDrop ==
    \A k \in 1..Len(Sent) :
        Sent[k].op \in {"r", "e"} =>
            \A j \in 1..(k - 1) : ~(Sent[j].op = "~" /\ Sent[j].arg = Sent[k].arg)

\* a callable has been left by a native exception: the `e` frame names the
\* wrapped exception, and the `~` of that index and of the wrapper follow it
ReplyBeforeDropWitness ==
    /\ ~err
    /\ last = Step("handle_call", "replied")
    /\ \E k \in 1..(Len(Sent) - 2) :
         /\ Sent[k].op = "e" /\ Sent[k].arg # Builtin
         /\ Sent[k + 1].op = "~" /\ Sent[k + 1].arg = Sent[k].arg
         /\ Sent[k + 2].op = "~" /\ Sent[k + 2].arg # Sent[k].arg

(***************************************************************************)
(* C35: every RemoteIndex that the bridge writes, in a payload, in a `~`   *)
(* or in a reply, was given to this bridge by its own interpreter: also    *)
(* the index of the `e` frame sent for a proxy that a callable has thrown. *)
(***************************************************************************)
OnlyOwnIndexesWritten ==
    \A k \in 1..Len(Sent) : Sent[k].arg # ForeignRaw \/ Sent[k].op \notin {"r", "e", "~", ".", "i"}

(***************************************************************************)
(* C37: while a callable of the host runs inside handle_call, the cell of  *)
(* py_to_cpp_ptrs that fn refers to is neither moved nor overwritten: no   *)
(* step that leaves the callable running takes new storage for the table   *)
(* (a nested cmd_make_remote that appends) or changes the cell (a nested   *)
(* `~` for its index).                                                     *)
(***************************************************************************)
\* the frame is inside fn(*this, num_args, args.get())
InsideFn(fr) == fr.k = "call" /\ fr.pc \in {"run", "fallback", "fallback2"}

\* the k-th frame of the stack is a callable that runs before and after the step
StaysRunning(k) ==
    /\ k <= Len(stack')
    /\ InsideFn(stack[k]) /\ InsideFn(stack'[k])
    /\ stack'[k].id = stack[k].id

\* the step appends to a full table
TableMoves ==
    /\ Len(py_to_cpp_ptrs') > Len(py_to_cpp_ptrs)
    /\ Reallocates(Len(py_to_cpp_ptrs))

\* the step changes the cell of the k-th frame's callable
CellOverwritten(k) ==
    CellAt(py_to_cpp_ptrs', stack[k].id) # CellAt(py_to_cpp_ptrs, stack[k].id)

RunningCellStays ==
    [][(phase = "alive" /\ phase' = "alive" /\ impl = "impl" /\ impl' = "impl") =>
         \A k \in 1..Len(stack) :
            StaysRunning(k) => ~TableMoves /\ ~CellOverwritten(k)]_vars

(***************************************************************************)
(* C38: when snaketongs_impl_start has returned NULL, whichever call has   *)
(* failed (malloc, pipe, fork, close, the handshake, either fdopen), each  *)
(* pipe end that was opened has been closed exactly once, the child, if it *)
(* was forked, has been waited for exactly once, and the impl structure    *)
(* has been freed exactly once.                                            *)
(***************************************************************************)
StartReleasesOnce ==
    (boot.pc = "returned" /\ boot.ret = "NULL") =>
      /\ boot.fds = {}
      /\ \A f \in Fds : boot.closes[f] = IF f \in boot.opened THEN 1 ELSE 0
      /\ boot.waits = IF boot.kid = "none" THEN 0 ELSE 1
      /\ boot.frees = boot.mallocs /\ ~boot.self
====
